---- MODULE Spec2Model ----
(***************************************************************************)
(* GraceQ/MPS2: the master/slave order protocol of the MPI two-site sweep  *)
(* engine.                                                                 *)
(*                                                                         *)
(*   Spec        the master, MasterTwoSiteFiniteVMPS, from program_start   *)
(*               to program_final: sweeps, bond updates, the orders it     *)
(*               broadcasts, the MPS / environment tensors it keeps in     *)
(*               memory and on disk.                                       *)
(*   SpecUpdate  one call of MasterTwoSiteFiniteVMPSUpdate with arbitrary  *)
(*               arguments (dir may be any character).                     *)
(*   SpecSlave   slaves running SlaveTwoSiteFiniteTDVP against a master    *)
(*               that broadcasts arbitrary orders; LiveSpecSlave adds the  *)
(*               fairness of the slave processes.                          *)
(*   SpecSlaveUpdates  the same slaves against a master that broadcasts    *)
(*               the orders of its bond updates, update after update.      *)
(*   SpecExpand  one round of the subspace expansion: the threads of       *)
(*               MasterTwoSiteFiniteVMPS*MovingExpand and the slaves of    *)
(*               SlaveTwoSiteFiniteVMPS*MovingExpand, with their messages. *)
(*               LiveSpecExpand adds the fairness of threads and slaves.   *)
(*   SpecCheck   CheckAndUpdateBoundaryMPSTensors loop pass by loop pass,  *)
(*               on bond dimensions, and run again on its own result.      *)
(*               LiveSpec and LiveSpecCheck are Spec and SpecCheck run to  *)
(*               their end.                                                *)
(*   SpecMpo     one call of MPOGenerator::AddTerm, the generic one or the *)
(*               overload with physical and insertion operators.           *)
(*                                                                         *)
(* Tensors are abstracted to what the control flow reads: which tensor is  *)
(* memory-resident, which file exists, and how often a tensor was written; *)
(* an MPS tensor also has its kind (canonical form), an environment tensor *)
(* the sites it has absorbed.                                              *)
(* A noise magnitude is an integer in units of 5e-11, so that the floor    *)
(* 1e-10 of the source is NoiseFloor = 2 and values below, at and above    *)
(* the floor exist.                                                        *)
(***************************************************************************)
EXTENDS Integers, Sequences, FiniteSets, TLC

\* ------------------------------------------------------------------ bounds
MaxN == 5
MaxSweeps == 2
MaxNoises == 2

\* ------------------------------------------------------- program constants
\* fabs(noise) >= 1e-10, in units of 5e-11
NoiseFloor == 2
\* exit(1)
ExitStatus == 1

\* noise values of the configuration, in units of 5e-11:
\* -1.5e-10, 0, 5e-11, 1e-10
NoiseVals == {-3, 0, 1, 2}

\* enum MPS_AlGO_ORDER
MPS_AlGO_ORDER ==
  << "program_start", "init_grow_env", "init_grow_env_grow",
     "init_grow_env_finish", "lanczos", "svd", "lanczos_mat_vec_dynamic",
     "lanczos_mat_vec_static", "lanczos_finish",
     "contract_for_right_moving_expansion",
     "contract_for_left_moving_expansion", "growing_left_env",
     "growing_right_env", "program_final" >>

Orders == { MPS_AlGO_ORDER[k] : k \in 1..Len(MPS_AlGO_ORDER) }

ExpansionOrders ==
  { "contract_for_right_moving_expansion", "contract_for_left_moving_expansion" }

\* ------------------------------------------------------------------- state
VARIABLES
  \* ---- master: MasterTwoSiteFiniteVMPS and its callees
  mpc,            \* position of the master in its code
  N,              \* mps.size()
  sweeps,         \* sweep_params.sweeps
  noises_cfg,     \* sweep_params.noises as the caller configured it
  noises,         \* sweep_params.noises
  noise,          \* double noise (local of MasterTwoSiteFiniteVMPS)
  noise_set,      \* whether the local noise has been assigned
  left_boundary,
  right_boundary,
  env_step,       \* tensors UpdateBoundaryEnvs has loaded and released
  sweep,          \* loop counter of MasterTwoSiteFiniteVMPS
  site,           \* loop counter i of TwoSiteFiniteVMPSSweep
  dir,            \* argument dir of MasterTwoSiteFiniteVMPSUpdate
  target_site,    \* argument target_site of MasterTwoSiteFiniteVMPSUpdate
  upd,            \* locals lsite_idx, rsite_idx, lenv_len, renv_len
  upd_base,       \* number of orders broadcast before the update was called
  exit_status,    \* 0 while running, the status of exit() afterwards
  orders,         \* every order the master has broadcast, in order
  updates,        \* every bond update entered: <<sweep, dir, target_site>>
  mps_mem,        \* sites whose MPS tensor is memory-resident
  mps_ver,        \* site -> version of the memory-resident tensor
  mps_disk,       \* site -> version of the tensor in its file
  mps_ten,        \* site -> kind of the memory-resident tensor
  mps_file,       \* site -> kind of the tensor in its file
  lenvs,          \* lengths of the memory-resident left environments
  renvs,          \* lengths of the memory-resident right environments
  lenv_sites,     \* length -> sites the left environment has absorbed
  renv_sites,     \* length -> sites the right environment has absorbed
  temp_exists,    \* IsPathExist(temp_path)
  env_files,      \* environment files: <<"l" or "r", length>>
  file_sites,     \* environment file -> sites its tensor has absorbed
  \* ---- slaves: SlaveTwoSiteFiniteTDVP, and the master they listen to
  dpc,            \* the broadcasting master: "order", "site" or "done"
  nsent,          \* number of orders the master has broadcast
  d_live,         \* after all orders sent, are a slave's environments live
  d_valid,        \* no order sent so far is fatal to a slave
  d_upd,          \* the master's place in its update: what it broadcast last
                  \* (pos), the updates begun, and their dir and target_site
  inbox,          \* slave -> broadcasts sent to it and not yet received
  spc,            \* slave -> position in SlaveTwoSiteFiniteTDVP
  sorder,         \* slave -> its local variable order
  eff_ham,        \* slave -> its vector eff_ham
  slog,           \* slave -> numbers of receives, sends, tensor operations
  aborted,        \* world.abort() was called
  \* ---- one expansion round: Master/SlaveTwoSiteFiniteVMPS*MovingExpand
  xpc,            \* position of the master outside its parallel region
  task_size,      \* number of quantum-number sectors of the split index
  task_difficuty, \* task -> degeneracy of its sector
  arraging_tasks, \* the tasks beyond one per slave, sorted
  omp_next,       \* next iteration the dynamic schedule hands out
  tpc,            \* master thread (by controlling_slave) -> position
  titer,          \* master thread -> iteration i it is executing
  to_slave,       \* slave -> messages sent to it: <<tag, value>>
  to_master,      \* messages sent to the master: [src, tag, task]
  res_list,       \* slot -> the blocks received into it: [thread, src, task]
  epc,            \* slave -> position in SlaveTwoSiteFiniteVMPS*MovingExpand
  etask,          \* slave -> its local variable task
  exec_log,       \* every sector contraction executed: <<slave, task>>
  handed,         \* every iteration handed out: <<thread, i, task>>
  combined,       \* number of blocks CollectiveLinearCombine received
  \* ---- CheckAndUpdateBoundaryMPSTensors, run on its own
  cpc,            \* position in CheckAndUpdateBoundaryMPSTensors
  c_N,            \* mps.size()
  Dmax,           \* argument Dmax
  bond,           \* b -> dimension of the bond to the left of site b
  c_i,            \* loop counter i
  c_lb,           \* local left_boundary
  c_rb,           \* local right_boundary
  c_mem,          \* sites whose tensor is memory-resident
  c_ten,          \* site -> kind of its tensor
  c_writes,       \* site -> number of times its file was written
  c_ret,          \* the pairs returned so far, one per run
  c_seen,         \* bond, c_ten and c_writes when the previous run returned
  \* MPOGenerator::AddTerm
  gpc,            \* position in the call of AddTerm
  N_,             \* number of sites of the generator
  fsm_paths,      \* the paths handed to fsm_.AddPath so far
  coef,           \* argument coef
  local_ops,      \* operators of the generic AddTerm
  local_ops_idxs, \* their site indexes
  phys_ops_idxs,  \* site indexes of the physical operators
  inst_ops,       \* inst_ops.size()
  inst_ops_idxs_set   \* explicit sites of the insertion operators, << >> by default

cfg == << N, sweeps, noises_cfg >>
bnd == << left_boundary, right_boundary, env_step >>
nzv == << noises, noise, noise_set >>
loopv == << sweep, site >>
callv == << dir, target_site, upd, upd_base >>
logv == << orders, updates >>
mpsv == << mps_mem, mps_ver, mps_disk, mps_ten, mps_file >>
envv == << lenvs, renvs, lenv_sites, renv_sites >>
fsv == << temp_exists, env_files, file_sites >>

masterVars ==
  << mpc, cfg, bnd, nzv, loopv, callv, exit_status, logv, mpsv, envv, fsv >>

slaveVars ==
  << dpc, nsent, d_live, d_valid, d_upd, inbox, spc, sorder, eff_ham, slog,
     aborted >>

expandVars ==
  << xpc, task_size, task_difficuty, arraging_tasks, omp_next, tpc, titer,
     to_slave, to_master, res_list, epc, etask, exec_log, handed, combined >>

mpoVars ==
  << gpc, N_, fsm_paths, coef, local_ops, local_ops_idxs, phys_ops_idxs,
     inst_ops, inst_ops_idxs_set >>

auxVars ==
  << cpc, c_N, Dmax, bond, c_i, c_lb, c_rb, c_mem, c_ten, c_writes, c_ret,
     c_seen, mpoVars >>

vars == << masterVars, slaveVars, expandVars, auxVars >>

Abs(x) == IF x < 0 THEN -x ELSE x

Sites == 0..(N - 1)

NoUpd == [lsite_idx |-> 0, rsite_idx |-> 0, lenv_len |-> 0, renv_len |-> 0]

\* sequences over S of length at most n
SeqUpTo(S, n) == UNION { [1..k -> S] : k \in 0..n }

\* MasterBroadcastOrder(order, world): one more order on the wire
MasterBroadcastOrder(order) == orders' = Append(orders, order)

\* mps.LoadTen(i, file): the tensor of the file becomes memory-resident
LoadTen(mem, i) == mem \cup {i}

\* mps.DumpTen(i, file, true): write the file and release the memory
DumpTenRelease(mem, i) == mem \ {i}

\* ----------------------------------------------------- MPS tensors
\* An MPS tensor is abstracted to its kind: "L" and "R" are the results of
\* LeftCanonicalizeTen and RightCanonicalizeTen, "C" a tensor that holds
\* the centre, "U", "Vt", "U*S" and "S*Vt" the tensors an update makes of
\* the outputs u, s, vt of MPISVDMaster, "expanded" a tensor padded with a
\* zero block by ExpandMC.
IsLeftCanonical(ten) == ten \in {"L", "U"}

IsRightCanonical(ten) == ten \in {"R", "Vt"}

\* mps.LeftCanonicalizeTen(i): mps[i] becomes left-canonical and the
\* remainder is contracted into mps[i + 1]; the remainder of a tensor that
\* was left-canonical already is unitary
LeftCanonicalizeTen(mps, i) ==
  [mps EXCEPT ![i] = "L",
              ![i + 1] = IF IsLeftCanonical(mps[i]) THEN @ ELSE "C"]

\* mps.RightCanonicalizeTen(i): mps[i] becomes right-canonical and the
\* remainder is contracted into mps[i - 1]
RightCanonicalizeTen(mps, i) ==
  [mps EXCEPT ![i] = "R",
              ![i - 1] = IF IsRightCanonical(mps[i]) THEN @ ELSE "C"]

\* an MPS with its centre at site c: left-canonical to the left of c,
\* right-canonical to its right
CentredMps(n, c) ==
  [i \in 0..(n - 1) |-> IF i < c THEN "L" ELSE IF i = c THEN "C" ELSE "R"]

\* The centres of the MPS handed to the run.  CheckAndUpdateBoundaryMPSTensors
\* supposes centre <= left_boundary + 1 (its @note, and "Assum the central
\* of MPS at zero" at its left loop); sites 0 and 1 meet that for every
\* left_boundary.
InputCentres == {0, 1}

RECURSIVE LeftSide(_, _, _)
\* CheckAndUpdateBoundaryMPSTensors, the loop "Left Side" from site i on:
\* it canonicalizes the sites up to left_boundary, where it ends or breaks
LeftSide(mps, i, lb) ==
  IF i > lb THEN mps ELSE LeftSide(LeftCanonicalizeTen(mps, i), i + 1, lb)

RECURSIVE RightSide(_, _, _)
\* CheckAndUpdateBoundaryMPSTensors, the loop "Right Side" from site i on:
\* it canonicalizes the sites down to right_boundary
RightSide(mps, i, rb) ==
  IF i < rb THEN mps ELSE RightSide(RightCanonicalizeTen(mps, i), i - 1, rb)

\* ------------------------------------------------ environment tensors
\* An environment tensor is abstracted to the sites it has absorbed, in the
\* order of absorption.  NoTen is the slot of a TenVec that holds no tensor
\* and the content of a file that does not exist.
NoTen == << -1 >>

EnvNames == {"l", "r"} \X (0..N)

\* TenVec<TenT> lenvs(N - 1), renvs(N - 1): N-1 empty slots
NoEnvs == [k \in 0..(N - 2) |-> NoTen]

\* TenT({...}) with element (0,0,0) = 1: the trivial environment
TrivialEnv == << >>

\* MasterGrowLeftEnvironment / MasterGrowRightEnvironment(env, mpo[site],
\* mps[site], world): the environment with one more site absorbed
MasterGrowEnvironment(env, i) == IF env = NoTen THEN NoTen ELSE Append(env, i)

\* the three Contract calls of UpdateBoundaryEnvs (lines 318-323, 332-337,
\* 356-361): env absorbs mps[i] and mpo[i]
ContractSite(env, i) == Append(env, i)

RECURSIVE ContractSites(_, _)
\* a loop of UpdateBoundaryEnvs: absorb the sites of the sequence in turn
ContractSites(env, is) ==
  IF is = << >> THEN env
  ELSE ContractSites(ContractSite(env, Head(is)), Tail(is))

\* lenvs.LoadTen(k, file) / renvs.LoadTen(k, file)
LoadEnv(ten, k, file) == [ten EXCEPT ![k] = file_sites[file]]

\* dealloc of slot k
DeallocEnv(ten, k) == [ten EXCEPT ![k] = NoTen]


\* ------------------------------------------------- boundaries and files
\* CheckAndUpdateBoundaryMPSTensors: the middle sites
left_middle_site(n) == IF n % 2 = 0 THEN n \div 2 - 1 ELSE n \div 2

right_middle_site(n) == n \div 2

\* The pairs CheckAndUpdateBoundaryMPSTensors can return for a chain of n >= 3
\* sites: the left loop ends with left_boundary = i at the first site i
\* below the left middle site whose fused dimension exceeds Dmax, or at
\* left_middle_site - 1; the right loop is its mirror image.
BoundaryPairs(n) ==
  { <<lb, rb>> \in (0..(n - 1)) \X (0..(n - 1)) :
      /\ lb <= left_middle_site(n) - 1
      /\ rb >= right_middle_site(n) + 1 }

\* The sites CheckAndUpdateBoundaryMPSTensors canonicalizes and dumps:
\* 0..left_boundary+1 on the left, right_boundary-1..N-1 on the right.
BoundaryTouched(n, lb, rb, i) ==
  (IF i <= lb + 1 THEN 1 ELSE 0) + (IF i >= rb - 1 THEN 1 ELSE 0)
\* fault variant: the probe stops one file short
ProbedRightEnvs_short(n, lb, rb) ==
  { <<"r", env_num>> : env_num \in ((n - 1) - rb)..((n - 1) - (lb + 2)) }

\* NeedGenerateRightEnvs: the right-environment files it probes
ProbedRightEnvs(n, lb, rb) ==
  { <<"r", env_num>> : env_num \in ((n - 1) - rb)..((n - 1) - (lb + 1)) }

NeedGenerateRightEnvs(n, lb, rb, exists, files) ==
  IF exists
    THEN \E f \in ProbedRightEnvs(n, lb, rb) : f \notin files
    ELSE TRUE

\* InitEnvs(mps, mpo, mps_path, temp_path, update_site_num): the trivial
\* environments and the right environments of length 1..N-update_site_num
InitEnvsFiles(n, update_site_num) ==
  { <<"r", k>> : k \in 0..(n - update_site_num) } \cup { <<"l", 0>> }

\* InitEnvs: each file holds the trivial environment grown over the
\* outermost sites of its side
InitEnvsTen(n, f) ==
  IF f[1] = "r" THEN [i \in 1..f[2] |-> n - i] ELSE [i \in 1..f[2] |-> i - 1]
\* fault variant: the loop of line 315 stops one site early
BoundaryRenv_short(n, rb) ==
  ContractSites(TrivialEnv, [i \in 1..(n - rb - 2) |-> n - i])

\* UpdateBoundaryEnvs lines 311-325: renv after the loop i = 1..N-rb-1
\* over the sites N-i
BoundaryRenv(n, rb) ==
  ContractSites(TrivialEnv, [i \in 1..(n - rb - 1) |-> n - i])

\* UpdateBoundaryEnvs lines 350-363: lenv after the loop i = 0..lb-1
BoundaryLenv(lb) == ContractSites(TrivialEnv, [i \in 1..lb |-> i - 1])

\* UpdateBoundaryEnvs: the tensor it writes to each of its three files
UpdateBoundaryEnvsTen(n, lb, rb, f) ==
  IF f = <<"l", lb>> THEN BoundaryLenv(lb)
  ELSE IF f = <<"r", n - rb - 1>> THEN BoundaryRenv(n, rb)
  ELSE ContractSite(BoundaryRenv(n, rb), rb)

\* fault variant: the left environment is not written
UpdateBoundaryEnvsFiles_right(n, lb, rb) ==
  { <<"r", n - rb - 1>>, <<"r", n - rb>> }

\* UpdateBoundaryEnvs: the three files it writes
UpdateBoundaryEnvsFiles(n, lb, rb) ==
  { <<"r", n - rb - 1>>, <<"r", n - rb>>, <<"l", lb>> }

\* The environment files a run may find: no temp_path, the complete set a
\* previous run left, or that set with one file lost (the right
\* environment of length 1, or the one of length 0).
InitialEnvFiles(n) ==
  LET all == { <<"r", k>> : k \in 0..(n - 1) } \cup { <<"l", 0>> }
  IN  { <<FALSE, {}>>, <<TRUE, all>>, <<TRUE, all \ { <<"r", 1>> }>>,
        <<TRUE, all \ { <<"r", 0>> }>> }

\* ---------------------------------------------------------- master: Init
MasterInit ==
  /\ mpc = "start"
  /\ N \in 3..MaxN
  /\ sweeps \in 0..MaxSweeps
  /\ noises_cfg \in SeqUpTo(NoiseVals, MaxNoises)
  /\ noises = noises_cfg
  /\ noise = 0
  /\ noise_set = FALSE
  /\ left_boundary = 0
  /\ right_boundary = 0
  /\ env_step = 0
  /\ sweep = 0
  /\ site = 0
  /\ dir = "r"
  /\ target_site = 0
  /\ upd = NoUpd
  /\ upd_base = 0
  /\ exit_status = 0
  /\ orders = << >>
  /\ updates = << >>
  /\ mps_mem = {}
  /\ mps_ver = [i \in 0..(N - 1) |-> 0]
  /\ mps_disk = [i \in 0..(N - 1) |-> 0]
  /\ \E c \in InputCentres : mps_file = CentredMps(N, c)
  /\ mps_ten = mps_file
  /\ lenvs = {}
  /\ renvs = {}
  /\ lenv_sites = NoEnvs
  /\ renv_sites = NoEnvs
  /\ \E fs \in InitialEnvFiles(N) : temp_exists = fs[1] /\ env_files = fs[2]
  /\ file_sites = [f \in EnvNames |->
                     IF f \in env_files THEN InitEnvsTen(N, f) ELSE NoTen]

\* ------------------------------------------- MasterTwoSiteFiniteVMPS
\* line 58: MasterBroadcastOrder(program_start, world)
BroadcastProgramStart ==
  /\ mpc = "start"
  /\ MasterBroadcastOrder("program_start")
  /\ mpc' = "init"
  /\ UNCHANGED << slaveVars, expandVars, auxVars, cfg, bnd, nzv, loopv, callv, exit_status, updates, mpsv, envv, fsv >>

\* line 59, TwoSiteFiniteVMPSInit lines 88-101: the boundary check
\* canonicalizes and dumps the tensors outside the boundaries
CheckAndUpdateBoundaryMPSTensors ==
  /\ mpc = "init"
  /\ \E b \in BoundaryPairs(N) :
       /\ left_boundary' = b[1]
       /\ right_boundary' = b[2]
       /\ mps_ver' = [i \in Sites |->
                        mps_ver[i] + BoundaryTouched(N, b[1], b[2], i)]
       /\ mps_disk' = mps_ver'
       /\ mps_file' = RightSide(LeftSide(mps_file, 0, b[1]), N - 1, b[2])
       /\ mps_ten' = mps_file'
  /\ mpc' = "need_envs"
  /\ UNCHANGED << slaveVars, expandVars, auxVars, cfg, nzv, loopv, callv, exit_status, logv,
                  env_step, mps_mem, envv, fsv >>

\* TwoSiteFiniteVMPSInit lines 105-115: the call of NeedGenerateRightEnvs,
\* which creates temp_path when it is absent, and the branch on its result
ProbeRightEnvs ==
  /\ mpc = "need_envs"
  /\ mpc' = IF NeedGenerateRightEnvs(N, left_boundary, right_boundary,
                                     temp_exists, env_files)
              THEN "init_envs" ELSE "boundary_envs"
  /\ temp_exists' = TRUE
  /\ UNCHANGED << slaveVars, expandVars, auxVars, cfg, bnd, nzv, loopv, callv, exit_status, logv,
                  mpsv, envv, env_files, file_sites >>

\* TwoSiteFiniteVMPSInit line 112: InitEnvs(..., left_boundary + 2)
InitEnvs ==
  /\ mpc = "init_envs"
  /\ env_files' = env_files \cup InitEnvsFiles(N, left_boundary + 2)
  /\ file_sites' =
       [f \in EnvNames |->
          IF f \in InitEnvsFiles(N, left_boundary + 2)
            THEN InitEnvsTen(N, f) ELSE file_sites[f]]
  /\ mpc' = "boundary_envs"
  /\ UNCHANGED << slaveVars, expandVars, auxVars, cfg, bnd, nzv, loopv, callv, exit_status, logv,
                  mpsv, envv, temp_exists >>

\* UpdateBoundaryEnvs: the sites whose MPS tensor it loads, in order: N-1
\* for the trivial right environment (line 306), N-i in the loop of line
\* 315, right_boundary (line 330), 0 for the trivial left environment
\* (line 345), i in the loop of line 353
BoundaryEnvsLoads(n, lb, rb) ==
  << n - 1 >> \o [i \in 1..(n - rb - 1) |-> n - i] \o << rb >> \o << 0 >>
    \o [i \in 1..lb |-> i - 1]

\* TwoSiteFiniteVMPSInit lines 117-119 and UpdateBoundaryEnvs, one
\* mps.LoadTen (lines 306, 316, 330, 345, 354)
UpdateBoundaryEnvsLoad ==
  /\ mpc = "boundary_envs"
  /\ LET i == BoundaryEnvsLoads(N, left_boundary, right_boundary)[env_step + 1]
     IN  /\ mps_mem' = LoadTen(mps_mem, i)
         /\ mps_ver' = [mps_ver EXCEPT ![i] = mps_disk[i]]
         /\ mps_ten' = [mps_ten EXCEPT ![i] = mps_file[i]]
  /\ mpc' = "boundary_envs_loaded"
  /\ UNCHANGED << slaveVars, expandVars, auxVars, cfg, bnd, nzv, loopv, callv,
                  exit_status, logv, mps_disk, mps_file, envv, fsv >>

\* UpdateBoundaryEnvs, the use of the tensor just loaded and its
\* mps.dealloc (lines 307-312, 317-324, 331-338, 346-351, 355-362), the
\* WriteGQTensorTOFile that follows it (lines 326-327, 339-340, 364-365),
\* and the return after the last one
UpdateBoundaryEnvsContract ==
  /\ mpc = "boundary_envs_loaded"
  /\ LET loads == BoundaryEnvsLoads(N, left_boundary, right_boundary)
         k == env_step + 1
         \* the right file of length m follows load m+1, the left file the
         \* last load
         written ==
           { f \in UpdateBoundaryEnvsFiles(N, left_boundary, right_boundary) :
               k = (IF f[1] = "r" THEN f[2] + 1 ELSE Len(loads)) }
     IN  /\ mps_mem' = mps_mem \ { loads[k] }
         /\ env_files' = env_files \cup written
         /\ file_sites' =
              [f \in EnvNames |->
                 IF f \in written
                   THEN UpdateBoundaryEnvsTen(N, left_boundary,
                                              right_boundary, f)
                   ELSE file_sites[f]]
         /\ env_step' = IF k = Len(loads) THEN 0 ELSE k
         /\ mpc' = IF k = Len(loads) THEN "prepare" ELSE "boundary_envs"
  /\ UNCHANGED << slaveVars, expandVars, auxVars, cfg, left_boundary,
                  right_boundary, nzv, loopv, callv, exit_status, logv,
                  mps_ver, mps_disk, mps_ten, mps_file, envv, temp_exists >>

\* TwoSiteFiniteVMPSInit lines 117-119: UpdateBoundaryEnvs, then return
UpdateBoundaryEnvs == UpdateBoundaryEnvsLoad \/ UpdateBoundaryEnvsContract

\* line 59: TwoSiteFiniteVMPSInit
TwoSiteFiniteVMPSInit ==
  \/ CheckAndUpdateBoundaryMPSTensors
  \/ ProbeRightEnvs
  \/ InitEnvs
  \/ UpdateBoundaryEnvs

\* fault variant: the empty list is left empty
DefaultNoises_none(ns) == ns

\* line 69: an empty noise list becomes the single entry 0.0
DefaultNoises(ns) == IF ns = << >> THEN << 0 >> ELSE ns

\* lines 69-73: default the noises, load the two left-most active tensors
Prepare ==
  /\ mpc = "prepare"
  /\ noises' = DefaultNoises(noises)
  /\ mps_mem' = LoadTen(LoadTen(mps_mem, left_boundary), left_boundary + 1)
  /\ mps_ver' = [mps_ver EXCEPT ![left_boundary] = mps_disk[left_boundary],
                                ![left_boundary + 1] = mps_disk[left_boundary + 1]]
  /\ mps_ten' = [mps_ten EXCEPT ![left_boundary] = mps_file[left_boundary],
                                ![left_boundary + 1] = mps_file[left_boundary + 1]]
  /\ sweep' = 1
  /\ mpc' = "sweep_head"
  /\ UNCHANGED << slaveVars, expandVars, auxVars, cfg, noise, noise_set, bnd, site, callv, exit_status, logv, mps_disk, mps_file, envv, fsv >>
\* fault variant: the test of line 75 off by one
SweepNoise_late(ns, sw, old) == IF sw < Len(ns) THEN ns[sw] ELSE old

\* fault variant: zero after the list is exhausted
SweepNoise_zero(ns, sw, old) == IF (sw - 1) < Len(ns) THEN ns[sw] ELSE 0

\* lines 75-77: the noise of sweep sw, given the value the local holds
SweepNoise(ns, sw, old) == IF (sw - 1) < Len(ns) THEN ns[sw] ELSE old

\* lines 74-82: the loop head, the noise of the sweep, the call of
\* TwoSiteFiniteVMPSSweep with its fresh lenvs and renvs (lines 106-107)
SweepHead ==
  /\ mpc = "sweep_head"
  /\ IF sweep <= sweeps
       THEN /\ \E old \in (IF noise_set THEN {noise} ELSE NoiseVals) :
                 noise' = SweepNoise(noises, sweep, old)
            /\ noise_set' = (noise_set \/ (sweep - 1) < Len(noises))
            /\ lenvs' = {}
            /\ renvs' = {}
            /\ lenv_sites' = NoEnvs
            /\ renv_sites' = NoEnvs
            /\ site' = left_boundary
            /\ mpc' = "r_head"
       ELSE /\ mpc' = "final_dump"
            /\ UNCHANGED << noise, noise_set, envv, site >>
  /\ UNCHANGED << slaveVars, expandVars, auxVars, cfg, noises, bnd, sweep, callv, exit_status, logv, mpsv, fsv >>


\* -------------------------------------------- TwoSiteFiniteVMPSSweep
\* LoadRelatedTensOnTwoSiteAlgWhenRightMoving: what it loads and removes
RightLoadRenvLen(n, t, lb) ==
  IF t # lb THEN n - (t + 2) ELSE (n - 1) - (t + 1)

\* fault variant: the left environment of the left boundary is not loaded
RightLoadLenvs_none(ls, t, lb) == ls

RightLoadLenvs(ls, t, lb) == IF t # lb THEN ls ELSE ls \cup {t}

\* LoadRelatedTensOnTwoSiteAlgWhenLeftMoving: what it loads and removes
LeftLoadLenvs(ls, t, rb) == IF t # rb THEN ls \cup {(t + 1) - 2} ELSE ls

LeftLoadRenvs(rs, n, t, rb) == IF t # rb THEN rs ELSE rs \cup {(n - 1) - t}
\* fault variant: at the right boundary the file removed is the file of the
\* right environment just loaded
LeftLoadRemoved_loaded(t, rb) ==
  IF t # rb THEN <<"l", (t + 1) - 2>> ELSE <<"r", (N - 1) - t>>

LeftLoadRemoved(t, rb) ==
  IF t # rb THEN <<"l", (t + 1) - 2>> ELSE <<"l", t - 1>>

\* fault variant: the right pass stops one site early
RightLoopRuns_short(i, rb) == i <= rb - 3

\* line 110: the right-moving loop runs while i <= right_boundary - 2
RightLoopRuns(i, rb) == i <= rb - 2
\* fault variant: the left pass stops one site early
LeftLoopRuns_short(i, lb) == i >= lb + 3

\* line 117: the left-moving loop runs while i >= left_boundary + 2
LeftLoopRuns(i, lb) == i >= lb + 2

\* lines 110-113: loop test, load step, call of the update with dir 'r'
RightHead ==
  /\ mpc = "r_head"
  /\ IF RightLoopRuns(site, right_boundary)
       THEN /\ mps_mem' = LoadTen(mps_mem, site + 2)
            /\ mps_ver' = [mps_ver EXCEPT ![site + 2] = mps_disk[site + 2]]
            /\ mps_ten' = [mps_ten EXCEPT ![site + 2] = mps_file[site + 2]]
            /\ renvs' = renvs \cup {RightLoadRenvLen(N, site, left_boundary)}
            /\ env_files' =
                 env_files \ { <<"r", RightLoadRenvLen(N, site, left_boundary)>> }
            /\ lenvs' = RightLoadLenvs(lenvs, site, left_boundary)
            /\ renv_sites' =
                 LoadEnv(renv_sites, RightLoadRenvLen(N, site, left_boundary),
                         <<"r", RightLoadRenvLen(N, site, left_boundary)>>)
            /\ lenv_sites' =
                 IF site # left_boundary THEN lenv_sites
                 ELSE LoadEnv(lenv_sites, site, <<"l", site>>)
            /\ file_sites' =
                 [file_sites EXCEPT
                    ![<<"r", RightLoadRenvLen(N, site, left_boundary)>>] = NoTen]
            /\ dir' = "r"
            /\ target_site' = site
            /\ upd_base' = Len(orders)
            /\ updates' = Append(updates, <<sweep, "r", site>>)
            /\ mpc' = "upd_switch"
            /\ UNCHANGED site
       ELSE /\ site' = right_boundary
            /\ mpc' = "l_head"
            /\ UNCHANGED << mps_mem, mps_ver, mps_ten, envv, env_files,
                            file_sites,
                            dir, target_site, upd_base, updates >>
  /\ UNCHANGED << slaveVars, expandVars, auxVars, cfg, bnd, nzv, sweep, upd, exit_status, orders,
                  mps_disk, mps_file, temp_exists >>

\* lines 117-119: loop test, load step, call of the update with dir 'l';
\* when the loop ends the sweep returns and its lenvs and renvs are destroyed
LeftHead ==
  /\ mpc = "l_head"
  /\ IF LeftLoopRuns(site, left_boundary)
       THEN /\ mps_mem' = LoadTen(mps_mem, site - 2)
            /\ mps_ver' = [mps_ver EXCEPT ![site - 2] = mps_disk[site - 2]]
            /\ mps_ten' = [mps_ten EXCEPT ![site - 2] = mps_file[site - 2]]
            /\ lenvs' = LeftLoadLenvs(lenvs, site, right_boundary)
            /\ renvs' = LeftLoadRenvs(renvs, N, site, right_boundary)
            /\ env_files' = env_files \ { LeftLoadRemoved(site, right_boundary) }
            /\ lenv_sites' =
                 IF site # right_boundary
                   THEN LoadEnv(lenv_sites, (site + 1) - 2,
                                <<"l", (site + 1) - 2>>)
                   ELSE lenv_sites
            /\ renv_sites' =
                 IF site # right_boundary THEN renv_sites
                 ELSE LoadEnv(renv_sites, (N - 1) - site,
                              <<"r", (N - 1) - site>>)
            /\ file_sites' =
                 [file_sites EXCEPT
                    ![LeftLoadRemoved(site, right_boundary)] = NoTen]
            /\ dir' = "l"
            /\ target_site' = site
            /\ upd_base' = Len(orders)
            /\ updates' = Append(updates, <<sweep, "l", site>>)
            /\ mpc' = "upd_switch"
            /\ UNCHANGED sweep
       ELSE /\ sweep' = sweep + 1
            /\ lenvs' = {}
            /\ renvs' = {}
            /\ lenv_sites' = NoEnvs
            /\ renv_sites' = NoEnvs
            /\ mpc' = "sweep_head"
            /\ UNCHANGED << mps_mem, mps_ver, mps_ten, env_files,
                            file_sites, dir,
                            target_site, upd_base, updates >>
  /\ UNCHANGED << slaveVars, expandVars, auxVars, cfg, bnd, nzv, site, upd, exit_status, orders,
                  mps_disk, mps_file, temp_exists >>

\* DumpRelatedTensOnTwoSiteAlgWhenRightMoving, then ++i (lines 115, 110)
RightDump ==
  /\ mpc = "upd_return"
  /\ dir = "r"
  /\ lenvs' = lenvs \ {target_site}
  /\ renvs' = renvs \ {N - (target_site + 2)}
  /\ mps_disk' = [mps_disk EXCEPT ![target_site] = mps_ver[target_site]]
  /\ mps_file' = [mps_file EXCEPT ![target_site] = mps_ten[target_site]]
  /\ mps_mem' = DumpTenRelease(mps_mem, target_site)
  /\ env_files' = env_files \cup { <<"l", target_site + 1>> }
  /\ lenv_sites' = DeallocEnv(lenv_sites, target_site)
  /\ renv_sites' = DeallocEnv(renv_sites, N - (target_site + 2))
  /\ file_sites' = [file_sites EXCEPT ![<<"l", target_site + 1>>] =
                                         lenv_sites[target_site + 1]]
  /\ site' = site + 1
  /\ mpc' = "r_head"
  /\ UNCHANGED << slaveVars, expandVars, auxVars, cfg, bnd, nzv, sweep, callv, exit_status, logv,
                  mps_ver, mps_ten, temp_exists >>

\* DumpRelatedTensOnTwoSiteAlgWhenLeftMoving, then --i (lines 120, 117)
LeftDump ==
  /\ mpc = "upd_return"
  /\ dir = "l"
  /\ lenvs' = lenvs \ {(target_site + 1) - 2}
  /\ renvs' = renvs \ {N - (target_site + 1)}
  /\ mps_disk' = [mps_disk EXCEPT ![target_site] = mps_ver[target_site]]
  /\ mps_file' = [mps_file EXCEPT ![target_site] = mps_ten[target_site]]
  /\ mps_mem' = DumpTenRelease(mps_mem, target_site)
  /\ env_files' = env_files \cup { <<"r", N - target_site>> }
  /\ lenv_sites' = DeallocEnv(lenv_sites, (target_site + 1) - 2)
  /\ renv_sites' = DeallocEnv(renv_sites, N - (target_site + 1))
  /\ file_sites' = [file_sites EXCEPT ![<<"r", N - target_site>>] =
                                         renv_sites[N - target_site]]
  /\ site' = site - 1
  /\ mpc' = "l_head"
  /\ UNCHANGED << slaveVars, expandVars, auxVars, cfg, bnd, nzv, sweep, callv, exit_status, logv,
                  mps_ver, mps_ten, temp_exists >>
\* fault variant: the final dumps are skipped
FinalDump_skipped ==
  /\ mpc = "final_dump"
  /\ mpc' = "final_bcast"
  /\ UNCHANGED << slaveVars, expandVars, auxVars, cfg, bnd, nzv, loopv, callv, exit_status, logv,
                  mpsv, envv, fsv >>

\* lines 88-89: dump the tensors at left_boundary and left_boundary + 1
FinalDump ==
  /\ mpc = "final_dump"
  /\ mps_disk' = [mps_disk EXCEPT
                    ![left_boundary] = mps_ver[left_boundary],
                    ![left_boundary + 1] = mps_ver[left_boundary + 1]]
  /\ mps_file' = [mps_file EXCEPT
                    ![left_boundary] = mps_ten[left_boundary],
                    ![left_boundary + 1] = mps_ten[left_boundary + 1]]
  /\ mps_mem' = DumpTenRelease(DumpTenRelease(mps_mem, left_boundary),
                               left_boundary + 1)
  /\ mpc' = "final_bcast"
  /\ UNCHANGED << slaveVars, expandVars, auxVars, cfg, bnd, nzv, loopv, callv, exit_status, logv,
                  mps_ver, mps_ten, envv, fsv >>

\* line 90: MasterBroadcastOrder(program_final, world), then return
BroadcastProgramFinal ==
  /\ mpc = "final_bcast"
  /\ MasterBroadcastOrder("program_final")
  /\ mpc' = "done"
  /\ UNCHANGED << slaveVars, expandVars, auxVars, cfg, bnd, nzv, loopv, callv, exit_status,
                  updates, mpsv, envv, fsv >>

\* ------------------------------------- MasterTwoSiteFiniteVMPSUpdate
\* fault variant: the default case of the switch is missing
DirExits_never(d) == FALSE

\* lines 153-169: the switch on dir leaves through exit(1) in its default case
DirExits(d) == d \notin {"r", "l"}

\* lines 154-165: the locals the switch assigns
UpdateLocals(d, t, n) ==
  IF d = "r"
    THEN [lsite_idx |-> t, rsite_idx |-> t + 1,
          lenv_len |-> t, renv_len |-> n - (t + 2)]
    ELSE [lsite_idx |-> t - 1, rsite_idx |-> t,
          lenv_len |-> t - 1, renv_len |-> n - t - 1]
\* fault variant: the sign of the noise is not dropped
NeedExpansion_signed(nz) == nz >= NoiseFloor

\* line 198: if (fabs(noise) >= 1e-10)
NeedExpansion(nz) == Abs(nz) >= NoiseFloor

\* lines 199-219: the expansion order of the direction
ExpansionOrder(d) ==
  IF d = "r" THEN "contract_for_right_moving_expansion"
             ELSE "contract_for_left_moving_expansion"
\* fault variant: the expansion enlarges the site one further out
next_next_site_far(d, t) == IF d = "r" THEN t + 3 ELSE t - 3

\* lines 502 and 619: the site the expansion enlarges
next_next_site(d, t) == IF d = "r" THEN t + 2 ELSE t - 2
\* lines 504-512 and 719-727: ExpandMC(mps(next_next_site),
\* &expanded_zero_ten, ...) pads the tensor with a zero block
ExpandMC(ten) == "expanded"
\* fault variant: moving left the tensors are assigned as moving right
SvdTensors_right(d) == [lsite |-> "U", rsite |-> "S*Vt"]

\* lines 252-266: the tensors the two sites of the window receive
SvdTensors(d) ==
  IF d = "r" THEN [lsite |-> "U", rsite |-> "S*Vt"]
             ELSE [lsite |-> "U*S", rsite |-> "Vt"]
\* fault variant: the same growing order in both directions
GrowOrder_same(d) == "growing_left_env"

\* lines 277-288: the environment order of the direction
GrowOrder(d) == IF d = "r" THEN "growing_left_env" ELSE "growing_right_env"

\* lines 153-169
UpdateSwitch ==
  /\ mpc = "upd_switch"
  /\ IF DirExits(dir)
       THEN /\ exit_status' = ExitStatus
            /\ mpc' = "exited"
            /\ UNCHANGED upd
       ELSE /\ upd' = UpdateLocals(dir, target_site, N)
            /\ mpc' = "upd_lanczos"
            /\ UNCHANGED exit_status
  /\ UNCHANGED << slaveVars, expandVars, auxVars, cfg, bnd, nzv, loopv, dir, target_site,
                  upd_base, logv, mpsv, envv, fsv >>

\* lines 171-192: the effective Hamiltonian, the initial state, the order
\* lanczos and MasterLanczosSolver
UpdateLanczos ==
  /\ mpc = "upd_lanczos"
  /\ MasterBroadcastOrder("lanczos")
  /\ mpc' = "upd_noise"
  /\ UNCHANGED << slaveVars, expandVars, auxVars, cfg, bnd, nzv, loopv, callv, exit_status,
                  updates, mpsv, envv, fsv >>

\* lines 198-220: the expansion order and the expansion, which rewrites the
\* tensor at the next-next site (lines 502-512, 619 and after)
UpdateExpand ==
  /\ mpc = "upd_noise"
  /\ IF NeedExpansion(noise)
       THEN /\ MasterBroadcastOrder(ExpansionOrder(dir))
            /\ mps_ver' =
                 [mps_ver EXCEPT ![next_next_site(dir, target_site)] = @ + 1]
            /\ mps_ten' =
                 [mps_ten EXCEPT ![next_next_site(dir, target_site)] =
                    ExpandMC(@)]
       ELSE UNCHANGED << orders, mps_ver, mps_ten >>
  /\ mpc' = "upd_svd"
  /\ UNCHANGED << slaveVars, expandVars, auxVars, cfg, bnd, nzv, loopv, callv, exit_status,
                  updates, mps_mem, mps_disk, mps_file, envv, fsv >>

\* lines 227-266: the order svd, MPISVDMaster, the two site tensors rewritten
UpdateSvd ==
  /\ mpc = "upd_svd"
  /\ MasterBroadcastOrder("svd")
  /\ mps_ver' = [mps_ver EXCEPT ![upd.lsite_idx] = @ + 1,
                                ![upd.rsite_idx] = @ + 1]
  /\ mps_ten' = [mps_ten EXCEPT ![upd.lsite_idx] = SvdTensors(dir).lsite,
                                ![upd.rsite_idx] = SvdTensors(dir).rsite]
  /\ mpc' = "upd_grow"
  /\ UNCHANGED << slaveVars, expandVars, auxVars, cfg, bnd, nzv, loopv, callv, exit_status,
                  updates, mps_mem, mps_disk, mps_file, envv, fsv >>

\* fault variant: the environment absorbs the left site of the window in
\* both directions
GrowSite_lsite(d, u, t) == u.lsite_idx

\* lines 280 and 284: the site whose mpo and mps tensors the new
\* environment absorbs (mpo[target_site], mps[target_site])
GrowSite(d, u, t) == t

\* lines 277-288: the growing order and the new environment,
\* lenvs(lenv_len + 1) grown from lenvs[lenv_len] or renvs(renv_len + 1)
\* grown from *eff_ham[3] = renvs(renv_len) (line 177)
UpdateGrow ==
  /\ mpc = "upd_grow"
  /\ MasterBroadcastOrder(GrowOrder(dir))
  /\ IF dir = "r"
       THEN /\ lenvs' = lenvs \cup {upd.lenv_len + 1}
            /\ lenv_sites' =
                 [lenv_sites EXCEPT ![upd.lenv_len + 1] =
                    MasterGrowEnvironment(lenv_sites[upd.lenv_len],
                                          GrowSite(dir, upd, target_site))]
            /\ UNCHANGED << renvs, renv_sites >>
       ELSE /\ renvs' = renvs \cup {upd.renv_len + 1}
            /\ renv_sites' =
                 [renv_sites EXCEPT ![upd.renv_len + 1] =
                    MasterGrowEnvironment(renv_sites[upd.renv_len],
                                          GrowSite(dir, upd, target_site))]
            /\ UNCHANGED << lenvs, lenv_sites >>
  /\ mpc' = "upd_return"
  /\ UNCHANGED << slaveVars, expandVars, auxVars, cfg, bnd, nzv, loopv, callv, exit_status,
                  updates, mpsv, fsv >>


\* =================================================================== slaves
\* ranks 1..world.size()-1 of a world of three processes
Slaves == {1, 2}

\* an order value outside enum MPS_AlGO_ORDER
UnknownOrder == "order_14"

AnyOrder == Orders \cup {UnknownOrder}

\* std::vector<TenT *> eff_ham(two_site_eff_ham_size): four null pointers.
\* p0, p3: "null", "live" (points to an allocated tensor) or "freed"
\* (dangling); p1, p2: the site of the MPO tensor pointed to, -1 for null.
NullEffHam == [p0 |-> "null", p1 |-> -1, p2 |-> -1, p3 |-> "null"]

NoLog == [recv |-> 0, send |-> 0, ops |-> 0]
\* fault variants: the loop never ends; the loop also ends on svd
LoopContinues_never(order) == TRUE

LoopContinues_svd(order) == order \notin {"program_final", "svd"}

\* line 33: while (order != program_final)
LoopContinues(order) == order # "program_final"

\* fault variant: the expansion cases fall through without abort
AbortsOn_never(order) == FALSE

\* lines 53-64: the cases that call world.abort(1)
AbortsOn(order) == order \in ExpansionOrders

\* lines 65-76: the cases that free and dereference the environments
GrowingOrders == {"growing_left_env", "growing_right_env"}

\* lines 65-76: delete eff_ham[3] (or [0]), *eff_ham[0] (or [3]), then the
\* other delete: defined behaviour only when both environments are allocated
GrowDefined(eh) == eh.p0 = "live" /\ eh.p3 = "live"

\* fault variant: growing_left_env deletes eff_ham[0] before it is used
GrowOps_early(order) ==
  IF order = "growing_left_env"
    THEN << << "delete", 3 >>, << "delete", 0 >>, << "use", 0 >>,
            << "use", 1 >> >>
    ELSE << << "delete", 0 >>, << "use", 3 >>, << "use", 2 >>,
            << "delete", 3 >> >>

\* fault variant: growing_right_env absorbs the MPO tensor of the left site
GrowOps_left(order) ==
  IF order = "growing_left_env"
    THEN << << "delete", 3 >>, << "use", 0 >>, << "use", 1 >>,
            << "delete", 0 >> >>
    ELSE << << "delete", 0 >>, << "use", 3 >>, << "use", 1 >>,
            << "delete", 3 >> >>

\* lines 66-68 and 72-74: what a growing case does with the entries of
\* eff_ham, in order: delete eff_ham[k], or *eff_ham[k] handed to
\* SlaveGrowLeftEnvironment / SlaveGrowRightEnvironment
GrowOps(order) ==
  IF order = "growing_left_env"
    THEN << << "delete", 3 >>, << "use", 0 >>, << "use", 1 >>,
            << "delete", 0 >> >>
    ELSE << << "delete", 0 >>, << "use", 3 >>, << "use", 2 >>,
            << "delete", 3 >> >>

\* lines 42-45: the pointers after the case lanczos
LanczosEffHam(lsite_idx) ==
  [p0 |-> "live", p1 |-> lsite_idx, p2 |-> lsite_idx + 1, p3 |-> "live"]

\* the pointers after the case of `order` (lanczos apart)
CaseEffHam(order, eh) ==
  IF order \in GrowingOrders
    THEN [eh EXCEPT !.p0 = "freed", !.p3 = "freed"]
    ELSE eh
\* fault variant: the default case answers the master like program_start
CaseLog_reply(order, lg) ==
  IF order \notin {"svd", "program_final"} \cup GrowingOrders
    THEN [lg EXCEPT !.send = @ + 1]
  ELSE IF order \in {"svd"} \cup GrowingOrders THEN [lg EXCEPT !.ops = @ + 1]
  ELSE lg

\* what the case of `order` adds to the slave's counts: the send of
\* program_start (line 36), the tensor work of svd and of the growing cases
CaseLog(order, lg) ==
  IF order = "program_start" THEN [lg EXCEPT !.send = @ + 1]
  ELSE IF order \in {"svd"} \cup GrowingOrders THEN [lg EXCEPT !.ops = @ + 1]
  ELSE lg

\* ---- the master as the slaves see it: a source of broadcasts
MaxOrders == 3
MaxInFlight == 1

\* does the order keep the run valid, given whether the environments of a
\* slave are allocated after the orders before it
OrderValid(order, live) ==
  /\ order \notin ExpansionOrders
  /\ order \in GrowingOrders => live

LiveAfter(order, live) ==
  IF order = "lanczos" THEN TRUE
  ELSE IF order \in GrowingOrders THEN FALSE
  ELSE live

SlaveInit ==
  /\ dpc = "order"
  /\ nsent = 0
  /\ d_live = FALSE
  /\ d_valid = TRUE
  /\ d_upd = [pos |-> "start", updates |-> 0, dir |-> "r", target_site |-> 0]
  /\ inbox = [s \in Slaves |-> << >>]
  /\ spc = [s \in Slaves |-> "recv"]
  /\ sorder = [s \in Slaves |-> "program_start"]
  /\ eff_ham = [s \in Slaves |-> NullEffHam]
  /\ slog = [s \in Slaves |-> NoLog]
  /\ aborted = FALSE

\* the master part of a run of the slaves, and the slave part of a run of
\* the master: not running
MasterIdle ==
  /\ mpc = "idle"
  /\ N = 3
  /\ sweeps = 0
  /\ noises_cfg = << >>
  /\ noises = << >>
  /\ noise = 0
  /\ noise_set = FALSE
  /\ left_boundary = 0
  /\ right_boundary = 0
  /\ env_step = 0
  /\ sweep = 0
  /\ site = 0
  /\ dir = "r"
  /\ target_site = 0
  /\ upd = NoUpd
  /\ upd_base = 0
  /\ exit_status = 0
  /\ orders = << >>
  /\ updates = << >>
  /\ mps_mem = {}
  /\ mps_ver = [i \in 0..(N - 1) |-> 0]
  /\ mps_disk = [i \in 0..(N - 1) |-> 0]
  /\ mps_ten = CentredMps(N, 0)
  /\ mps_file = CentredMps(N, 0)
  /\ lenvs = {}
  /\ renvs = {}
  /\ lenv_sites = NoEnvs
  /\ renv_sites = NoEnvs
  /\ temp_exists = FALSE
  /\ env_files = {}
  /\ file_sites = [f \in EnvNames |-> NoTen]

\* MasterBroadcastOrder(order, world) as the slaves see it
DriverBroadcastOrder ==
  /\ dpc = "order"
  /\ ~aborted
  /\ \A s \in Slaves : Len(inbox[s]) < MaxInFlight
  /\ \E o \in AnyOrder :
       /\ nsent < MaxOrders \/ o = "program_final"
       /\ inbox' = [s \in Slaves |-> Append(inbox[s], <<"order", o>>)]
       /\ dpc' = IF o = "lanczos" THEN "site"
                 ELSE IF o = "program_final" THEN "done" ELSE "order"
       /\ d_valid' = (d_valid /\ OrderValid(o, d_live))
       /\ d_live' = LiveAfter(o, d_live)
  /\ nsent' = nsent + 1
  /\ UNCHANGED << masterVars, expandVars, auxVars, d_upd, spc, sorder, eff_ham, slog,
                  aborted >>

\* broadcast(world, lsite_idx, kMasterRank) on the master side
DriverBroadcastSite ==
  /\ dpc = "site"
  /\ ~aborted
  /\ \E k \in 0..(N - 2) :
       inbox' = [s \in Slaves |-> Append(inbox[s], <<"site", k>>)]
  /\ dpc' = "order"
  /\ UNCHANGED << masterVars, expandVars, auxVars, nsent, d_live, d_valid, d_upd, spc, sorder, eff_ham,
                  slog, aborted >>

MaxUpdates == 2

\* the scalar the master broadcasts after the order lanczos, which the
\* slave receives at line 40: the left site of the window of the update
BroadcastLsite(u) == u.lsite_idx

\* The orders of the master's updates as the slaves see them:
\* program_start (line 58), then for every update lanczos (line 187) and the
\* left site of the window, the expansion order of the direction when the
\* noise asks for one (lines 198-220), svd (line 230) and the growing order
\* of the direction (lines 277-288), at last program_final (line 90).  The
\* call that follows a broadcast works with the slaves, so the master goes
\* on when every slave has finished the case of the order.
DriverUpdateOrder ==
  /\ ~aborted
  /\ \/ /\ dpc = "order"
        /\ \A s \in Slaves : inbox[s] = << >> /\ spc[s] = "recv"
        /\ \E o \in Orders, d \in {"r", "l"}, t \in 0..(N - 1) :
             /\ \/ /\ d_upd.pos = "start"
                   /\ o = "program_start"
                   /\ d_upd' = [d_upd EXCEPT !.pos = "update"]
                \/ /\ d_upd.pos = "update"
                   /\ d_upd.updates < MaxUpdates
                   /\ o = "lanczos"
                   /\ UpdateLocals(d, t, N).lsite_idx \in 0..(N - 2)
                   /\ d_upd' = [pos |-> "lanczos", updates |-> d_upd.updates + 1,
                                dir |-> d, target_site |-> t]
                \/ /\ d_upd.pos = "update"
                   /\ o = "program_final"
                   /\ d_upd' = [d_upd EXCEPT !.pos = "final"]
                \/ /\ d_upd.pos = "lanczos"
                   /\ o \in {ExpansionOrder(d_upd.dir), "svd"}
                   /\ d_upd' = [d_upd EXCEPT !.pos = IF o = "svd" THEN "svd"
                                                     ELSE "expansion"]
                \/ /\ d_upd.pos = "expansion"
                   /\ o = "svd"
                   /\ d_upd' = [d_upd EXCEPT !.pos = "svd"]
                \/ /\ d_upd.pos = "svd"
                   /\ o = GrowOrder(d_upd.dir)
                   /\ d_upd' = [d_upd EXCEPT !.pos = "update"]
             /\ inbox' = [s \in Slaves |-> Append(inbox[s], <<"order", o>>)]
             /\ dpc' = IF o = "lanczos" THEN "site"
                       ELSE IF o = "program_final" THEN "done" ELSE "order"
             /\ d_valid' = (d_valid /\ OrderValid(o, d_live))
             /\ d_live' = LiveAfter(o, d_live)
        /\ nsent' = nsent + 1
     \/ /\ dpc = "site"
        /\ inbox' =
             [s \in Slaves |->
                Append(inbox[s],
                       <<"site",
                         BroadcastLsite(UpdateLocals(d_upd.dir,
                                                     d_upd.target_site, N))>>)]
        /\ dpc' = "order"
        /\ UNCHANGED << nsent, d_live, d_valid, d_upd >>
  /\ UNCHANGED << masterVars, expandVars, auxVars, spc, sorder, eff_ham, slog,
                  aborted >>

\* ---- SlaveTwoSiteFiniteTDVP
\* line 34: order = SlaveGetBroadcastOrder(world)
SlaveGetBroadcastOrder(s) ==
  /\ spc[s] = "recv"
  /\ ~aborted
  /\ inbox[s] # << >>
  /\ Head(inbox[s])[1] = "order"
  /\ sorder' = [sorder EXCEPT ![s] = Head(inbox[s])[2]]
  /\ inbox' = [inbox EXCEPT ![s] = Tail(inbox[s])]
  /\ slog' = [slog EXCEPT ![s].recv = @ + 1]
  /\ spc' = [spc EXCEPT ![s] = "dispatch"]
  /\ UNCHANGED << masterVars, expandVars, auxVars, dpc, nsent, d_live, d_valid, d_upd, eff_ham, aborted >>

\* lines 38-47: case lanczos: receive lsite_idx, set the four pointers,
\* SlaveLanczosSolver
SlaveLanczos(s) ==
  /\ spc[s] = "dispatch"
  /\ ~aborted
  /\ sorder[s] = "lanczos"
  /\ inbox[s] # << >>
  /\ Head(inbox[s])[1] = "site"
  /\ eff_ham' = [eff_ham EXCEPT ![s] = LanczosEffHam(Head(inbox[s])[2])]
  /\ inbox' = [inbox EXCEPT ![s] = Tail(inbox[s])]
  /\ slog' = [slog EXCEPT ![s].recv = @ + 1, ![s].ops = @ + 1]
  /\ spc' = [spc EXCEPT ![s] = "recv"]
  /\ UNCHANGED << masterVars, expandVars, auxVars, dpc, nsent, d_live, d_valid, d_upd, sorder, aborted >>

\* lines 35-82: every other case, then the loop test of line 33.  A growing
\* case is defined behaviour when both environments are allocated and no
\* entry is used or deleted after its delete.
SlaveDispatch(s) ==
  LET ops == GrowOps(sorder[s])
      defined ==
        /\ GrowDefined(eff_ham[s])
        /\ \A j, k \in 1..Len(ops) :
             (j < k /\ ops[j][1] = "delete") => ops[k][2] # ops[j][2]
  IN
  /\ spc[s] = "dispatch"
  /\ ~aborted
  /\ sorder[s] # "lanczos"
  /\ \/ /\ AbortsOn(sorder[s])
        /\ aborted' = TRUE
        /\ spc' = [spc EXCEPT ![s] = "aborted"]
        /\ UNCHANGED << eff_ham, slog >>
     \/ /\ ~AbortsOn(sorder[s])
        /\ sorder[s] \in GrowingOrders => defined
        /\ eff_ham' = [eff_ham EXCEPT ![s] = CaseEffHam(sorder[s], @)]
        /\ slog' = [slog EXCEPT ![s] = CaseLog(sorder[s], @)]
        /\ spc' = [spc EXCEPT ![s] =
                     IF LoopContinues(sorder[s]) THEN "recv" ELSE "returned"]
        /\ UNCHANGED aborted
     \* a growing order with an environment pointer null or dangling is
     \* undefined behaviour: the process dies, or goes on as if it were not
     \/ /\ sorder[s] \in GrowingOrders
        /\ ~defined
        /\ \/ /\ spc' = [spc EXCEPT ![s] = "crashed"]
              /\ UNCHANGED << eff_ham, slog >>
           \/ /\ eff_ham' = [eff_ham EXCEPT ![s] = CaseEffHam(sorder[s], @)]
              /\ slog' = [slog EXCEPT ![s] = CaseLog(sorder[s], @)]
              /\ spc' = [spc EXCEPT ![s] = "recv"]
        /\ UNCHANGED aborted
  /\ UNCHANGED << masterVars, expandVars, auxVars, dpc, nsent, d_live, d_valid, d_upd, inbox,
                  sorder >>

SlaveStep(s) ==
  SlaveGetBroadcastOrder(s) \/ SlaveLanczos(s) \/ SlaveDispatch(s)

\* ------------------------------------------------ one expansion round
\* MasterTwoSiteFiniteVMPSRightMovingExpand (lines 432-482) against
\* SlaveTwoSiteFiniteVMPSRightMovingExpand (lines 536-605); the left-moving
\* pair (lines 653-695, 752-821) schedules in the same way.
MaxTasks == 4
MaxDegeneracy == 2

\* line 422: slave_size = world.size() - 1
slave_size == Cardinality(Slaves)

Tasks == 0..(task_size - 1)
\* fault variant: the finish signal is a valid task index
FinishSignal_last(ts) == ts - 1

\* lines 464 and 475: the finish signal 2*task_size
FinishSignal(ts) == 2 * ts
\* fault variant: the control tag is the rank itself
MasterControlTag_rank(controlling_slave) == controlling_slave

\* lines 459, 464, 475: control messages carry the tag 2*controlling_slave
MasterControlTag(controlling_slave) == 2 * controlling_slave

\* lines 575, 595: the slave receives its control messages by 2*rank
SlaveControlTag(slave_identifier) == 2 * slave_identifier

\* lines 574, 594: bsdt.MPISend(world, kMasterRank, task): tag = task
DataTag(task) == task
\* fault variant: the comparator sorts ascending
SortsBefore_ascending(difficulty, task1, task2) ==
  difficulty[task1] < difficulty[task2]

\* lines 444-446: the comparator of std::sort
SortsBefore(difficulty, task1, task2) == difficulty[task1] > difficulty[task2]

\* lines 440-446: what std::sort can leave in arraging_tasks: the tasks
\* slave_size .. task_size-1 in an order the comparator does not contradict
\* (std::sort is not stable: tasks of equal difficulty come in any order)
SortedArrangements(ts, difficulty) ==
  { a \in [1..(ts - slave_size) -> slave_size..(ts - 1)] :
      /\ \A i, j \in DOMAIN a : i # j => a[i] # a[j]
      /\ \A i, j \in DOMAIN a :
           i < j => ~SortsBefore(difficulty, a[j], a[i]) }
\* fault variant: the loop receives into the slot of the thread's first task
LoopSlot_own(controlling_slave, i) == controlling_slave - 1

\* line 460: the slot of res_list that iteration i of the loop receives into
LoopSlot(controlling_slave, i) == i + slave_size

\* the threads of the parallel region: num_threads(slave_size) at line 449,
\* num_threads(task_size) at line 469
Threads(ts) == IF slave_size < ts THEN 1..slave_size ELSE 1..ts

\* MPI matching: the earliest message of `src` with `tag`
Matching(q, src, tag) ==
  { i \in 1..Len(q) : q[i].src = src /\ q[i].tag = tag }

FirstOf(S) == CHOOSE i \in S : \A j \in S : i <= j

RemoveAt(q, i) == SubSeq(q, 1, i - 1) \o SubSeq(q, i + 1, Len(q))

TaggedAt(q, tag) == { i \in 1..Len(q) : q[i][1] = tag }

ExpandInit ==
  /\ xpc = "schedule"
  /\ task_size \in 1..MaxTasks
  /\ task_difficuty \in [0..(task_size - 1) -> 1..MaxDegeneracy]
  /\ arraging_tasks = << >>
  /\ omp_next = 0
  /\ tpc = [k \in Slaves |-> "none"]
  /\ titer = [k \in Slaves |-> 0]
  /\ to_slave = [s \in Slaves |-> << >>]
  /\ to_master = << >>
  /\ res_list = [j \in 0..(task_size - 1) |-> << >>]
  /\ epc = [s \in Slaves |-> "start"]
  /\ etask = [s \in Slaves |-> 0]
  /\ exec_log = << >>
  /\ handed = << >>
  /\ combined = 0

\* no expansion round is running
ExpandIdle ==
  /\ xpc = "idle"
  /\ task_size = 0
  /\ task_difficuty = << >>
  /\ arraging_tasks = << >>
  /\ omp_next = 0
  /\ tpc = [k \in Slaves |-> "none"]
  /\ titer = [k \in Slaves |-> 0]
  /\ to_slave = [s \in Slaves |-> << >>]
  /\ to_master = << >>
  /\ res_list = << >>
  /\ epc = [s \in Slaves |-> "idle"]
  /\ etask = [s \in Slaves |-> 0]
  /\ exec_log = << >>
  /\ handed = << >>
  /\ combined = 0

\* lines 435-451 and 466-471: the branch on slave_size < task_size, the sort
\* of the tasks beyond one per slave, the start of the threads
MasterSchedule ==
  /\ xpc = "schedule"
  /\ IF slave_size < task_size
       THEN arraging_tasks' \in SortedArrangements(task_size, task_difficuty)
       ELSE UNCHANGED arraging_tasks
  /\ tpc' = [k \in Slaves |->
               IF k \in Threads(task_size) THEN "recv_first" ELSE "none"]
  /\ xpc' = "parallel"
  /\ UNCHANGED << masterVars, slaveVars, auxVars, task_size, task_difficuty, omp_next,
                  titer, to_slave, to_master, res_list, epc, etask, exec_log,
                  handed, combined >>

\* lines 453-455 and 472-474: the thread of controlling_slave receives the
\* block of task controlling_slave-1 into res_list[controlling_slave-1]
ThreadRecvFirst(k) ==
  /\ xpc = "parallel"
  /\ tpc[k] = "recv_first"
  /\ Matching(to_master, k, k - 1) # {}
  /\ LET m == FirstOf(Matching(to_master, k, k - 1))
     IN  /\ res_list' = [res_list EXCEPT ![k - 1] =
                           Append(@, [thread |-> k, src |-> to_master[m].src,
                                      task |-> to_master[m].task])]
         /\ to_master' = RemoveAt(to_master, m)
  /\ tpc' = [tpc EXCEPT ![k] =
               IF slave_size < task_size THEN "take" ELSE "finish"]
  /\ UNCHANGED << masterVars, slaveVars, auxVars, xpc, task_size, task_difficuty,
                  arraging_tasks, omp_next, titer, to_slave, epc, etask,
                  exec_log, handed, combined >>

\* lines 457-458: omp for nowait schedule(dynamic): the thread asks for the
\* next iteration of the shared loop, or leaves the loop when none is left
ThreadTake(k) ==
  /\ xpc = "parallel"
  /\ tpc[k] = "take"
  /\ IF omp_next < task_size - slave_size
       THEN /\ titer' = [titer EXCEPT ![k] = omp_next]
            /\ omp_next' = omp_next + 1
            /\ handed' =
                 Append(handed, <<k, omp_next, arraging_tasks[omp_next + 1]>>)
            /\ tpc' = [tpc EXCEPT ![k] = "send"]
       ELSE /\ tpc' = [tpc EXCEPT ![k] = "finish"]
            /\ UNCHANGED << titer, omp_next, handed >>
  /\ UNCHANGED << masterVars, slaveVars, auxVars, xpc, task_size, task_difficuty,
                  arraging_tasks, to_slave, to_master, res_list, epc, etask,
                  exec_log, combined >>

\* line 459: world.send(controlling_slave, 2*controlling_slave,
\* arraging_tasks[i])
ThreadSendTask(k) ==
  /\ xpc = "parallel"
  /\ tpc[k] = "send"
  /\ to_slave' = [to_slave EXCEPT ![k] =
                    Append(@, <<MasterControlTag(k),
                                arraging_tasks[titer[k] + 1]>>)]
  /\ tpc' = [tpc EXCEPT ![k] = "recv"]
  /\ UNCHANGED << masterVars, slaveVars, auxVars, xpc, task_size, task_difficuty,
                  arraging_tasks, omp_next, titer, to_master, res_list, epc,
                  etask, exec_log, handed, combined >>

\* lines 460-461: receive the block of arraging_tasks[i] from the
\* controlling slave into res_list[i + slave_size]
ThreadRecvTask(k) ==
  /\ xpc = "parallel"
  /\ tpc[k] = "recv"
  /\ Matching(to_master, k, arraging_tasks[titer[k] + 1]) # {}
  /\ LET m == FirstOf(Matching(to_master, k, arraging_tasks[titer[k] + 1]))
     IN  /\ res_list' = [res_list EXCEPT ![LoopSlot(k, titer[k])] =
                           Append(@, [thread |-> k, src |-> to_master[m].src,
                                      task |-> to_master[m].task])]
         /\ to_master' = RemoveAt(to_master, m)
  /\ tpc' = [tpc EXCEPT ![k] = "take"]
  /\ UNCHANGED << masterVars, slaveVars, auxVars, xpc, task_size, task_difficuty,
                  arraging_tasks, omp_next, titer, to_slave, epc, etask,
                  exec_log, handed, combined >>

\* lines 464 and 475: the finish signal, then the end of the thread
ThreadFinish(k) ==
  /\ xpc = "parallel"
  /\ tpc[k] = "finish"
  /\ to_slave' = [to_slave EXCEPT ![k] =
                    Append(@, <<MasterControlTag(k), FinishSignal(task_size)>>)]
  /\ tpc' = [tpc EXCEPT ![k] = "joined"]
  /\ UNCHANGED << masterVars, slaveVars, auxVars, xpc, task_size, task_difficuty,
                  arraging_tasks, omp_next, titer, to_master, res_list, epc,
                  etask, exec_log, handed, combined >>

\* lines 465, 476 and 481-482: the barrier that ends the parallel
\* region, then CollectiveLinearCombine(res_list, *ten_tmp)
MasterCombine ==
  /\ xpc = "parallel"
  /\ \A k \in Threads(task_size) : tpc[k] = "joined"
  /\ combined' = Cardinality({ j \in Tasks : res_list[j] # << >> })
  /\ xpc' = "expanded"
  /\ UNCHANGED << masterVars, slaveVars, auxVars, task_size, task_difficuty,
                  arraging_tasks, omp_next, tpc, titer, to_slave, to_master,
                  res_list, epc, etask, exec_log, handed >>

\* lines 536-548: a slave with no task of its own returns at once; the
\* others start with task = slave_identifier - 1
SlaveExpandStart(s) ==
  /\ epc[s] = "start"
  /\ IF s > task_size
       THEN epc' = [epc EXCEPT ![s] = "returned"] /\ UNCHANGED etask
       ELSE /\ etask' = [etask EXCEPT ![s] = s - 1]
            /\ epc' = [epc EXCEPT ![s] = "work"]
  /\ UNCHANGED << masterVars, slaveVars, auxVars, xpc, task_size, task_difficuty,
                  arraging_tasks, omp_next, tpc, titer, to_slave, to_master,
                  res_list, exec_log, handed, combined >>

\* lines 549-574 and 580-594: contract the sector of `task`, send the block
\* with tag = task
SlaveExpandWork(s) ==
  /\ epc[s] = "work"
  /\ exec_log' = Append(exec_log, <<s, etask[s]>>)
  /\ to_master' = Append(to_master, [src |-> s, tag |-> DataTag(etask[s]),
                                     task |-> etask[s]])
  /\ epc' = [epc EXCEPT ![s] = "wait"]
  /\ UNCHANGED << masterVars, slaveVars, auxVars, xpc, task_size, task_difficuty,
                  arraging_tasks, omp_next, tpc, titer, to_slave, res_list,
                  etask, handed, combined >>

\* lines 575, 595 and 579: world.recv(kMasterRank, 2*slave_identifier, task),
\* then the loop test task < task_size
SlaveExpandRecv(s) ==
  /\ epc[s] = "wait"
  /\ TaggedAt(to_slave[s], SlaveControlTag(s)) # {}
  /\ LET m == FirstOf(TaggedAt(to_slave[s], SlaveControlTag(s)))
         task == to_slave[s][m][2]
     IN  /\ etask' = [etask EXCEPT ![s] = task]
         /\ to_slave' = [to_slave EXCEPT ![s] = RemoveAt(@, m)]
         /\ epc' = [epc EXCEPT ![s] =
                      IF task < task_size THEN "work" ELSE "returned"]
  /\ UNCHANGED << masterVars, slaveVars, auxVars, xpc, task_size, task_difficuty,
                  arraging_tasks, omp_next, tpc, titer, to_master, res_list,
                  exec_log, handed, combined >>

ThreadStep(k) ==
  \/ ThreadRecvFirst(k)
  \/ ThreadTake(k)
  \/ ThreadSendTask(k)
  \/ ThreadRecvTask(k)
  \/ ThreadFinish(k)

SlaveExpandStep(s) ==
  SlaveExpandStart(s) \/ SlaveExpandWork(s) \/ SlaveExpandRecv(s)

\* =========================== CheckAndUpdateBoundaryMPSTensors, step by step
MaxBond == 3
MaxRuns == 2
\* dimension of the physical index of every site
PhysDim == 2

\* size_t, scaled to 16 bits
SizeMod == 65536

\* one call on a chain of 2..MaxN sites with arbitrary bond dimensions
\* inside and trivial bonds at both ends
CheckInit ==
  /\ cpc = "enter"
  /\ c_N \in 2..MaxN
  /\ Dmax \in 1..(PhysDim * MaxBond)
  /\ bond \in { b \in [0..c_N -> 1..MaxBond] : b[0] = 1 /\ b[c_N] = 1 }
  /\ c_i = 0
  /\ c_lb = 0
  /\ c_rb = 0
  /\ c_mem = {}
  /\ \E c \in InputCentres : c_ten = CentredMps(c_N, c)
  /\ c_writes = [i \in 0..(c_N - 1) |-> 0]
  /\ c_ret = << >>
  /\ c_seen = << >>
  /\ gpc = "idle"
  /\ N_ = 1
  /\ fsm_paths = << >>
  /\ coef = 0
  /\ local_ops = << >>
  /\ local_ops_idxs = << >>
  /\ phys_ops_idxs = << >>
  /\ inst_ops = 0
  /\ inst_ops_idxs_set = << >>

\* the parts of the model that run on their own, not running
AuxIdle ==
  /\ cpc = "idle"
  /\ c_N = 2
  /\ Dmax = 1
  /\ bond = [b \in 0..c_N |-> 1]
  /\ c_i = 0
  /\ c_lb = 0
  /\ c_rb = 0
  /\ c_mem = {}
  /\ c_ten = CentredMps(c_N, 0)
  /\ c_writes = [i \in 0..(c_N - 1) |-> 0]
  /\ c_ret = << >>
  /\ c_seen = << >>
  /\ gpc = "idle"
  /\ N_ = 1
  /\ fsm_paths = << >>
  /\ coef = 0
  /\ local_ops = << >>
  /\ local_ops_idxs = << >>
  /\ phys_ops_idxs = << >>
  /\ inst_ops = 0
  /\ inst_ops_idxs_set = << >>

\* lines 150-173: assert(mps.empty()), the boundaries start at 0, the
\* middle sites, mps.LoadTen(0, ...)
CheckEnter ==
  /\ cpc = "enter"
  /\ c_lb' = 0
  /\ c_rb' = 0
  /\ c_mem' = LoadTen(c_mem, 0)
  /\ c_i' = 0
  /\ cpc' = "left"
  /\ UNCHANGED << masterVars, slaveVars, expandVars, mpoVars, c_N, Dmax, bond, c_ten,
                  c_writes, c_ret, c_seen >>
\* fault variant: the loop goes on after the first site above Dmax
LeftBreaks_never(shape0, shape1, dmax) == FALSE

\* lines 181 and 227: if the fused dimension exceeds Dmax ... break
LeftBreaks(shape0, shape1, dmax) == shape0 * shape1 > dmax
\* fault variant: a site with a smaller bond is left as it is
Fuses_never(shape0, shape1, shape2) == FALSE

\* lines 184 and 230: else if the fused dimension exceeds the bond
Fuses(shape0, shape1, shape2) == shape0 * shape1 > shape2

\* fault variant: the combiner leaves a bond one larger than the fused index
FusedBond_wide(shape0, shape1) == shape0 * shape1 + 1

\* lines 185-208 and 231-240: the bond IndexCombine makes of two indices
FusedBond(shape0, shape1) == shape0 * shape1

\* lines 175-212, one pass of the loop "Left Side": load site i+1,
\* LeftCanonicalizeTen(i) (the bond to the right of i becomes at most the
\* fused dimension of i), then break with left_boundary = i, or replace
\* mps[i] by the index combiner and contract the tensor into mps[i+1]
CheckLeftSide ==
  /\ cpc = "left"
  /\ IF c_i < left_middle_site(c_N)
       THEN LET shape0 == bond[c_i]
                shape2 == IF bond[c_i] * PhysDim < bond[c_i + 1]
                            THEN bond[c_i] * PhysDim ELSE bond[c_i + 1]
                stop == LeftBreaks(shape0, PhysDim, Dmax)
            IN  /\ c_mem' = LoadTen(c_mem, c_i + 1)
                /\ c_ten' = LeftCanonicalizeTen(c_ten, c_i)
                /\ bond' =
                     [bond EXCEPT ![c_i + 1] =
                        IF ~stop /\ Fuses(shape0, PhysDim, shape2)
                          THEN FusedBond(shape0, PhysDim) ELSE shape2]
                /\ c_lb' = IF stop \/ c_i = left_middle_site(c_N) - 1
                             THEN c_i ELSE c_lb
                /\ c_i' = IF stop THEN c_i ELSE c_i + 1
                /\ cpc' = IF stop THEN "left_dump" ELSE "left"
       ELSE /\ cpc' = "left_dump"
            /\ UNCHANGED << c_mem, c_ten, bond, c_lb, c_i >>
  /\ UNCHANGED << masterVars, slaveVars, expandVars, mpoVars, c_N, Dmax, c_rb,
                  c_writes, c_ret, c_seen >>

\* lines 215-220: DumpTen(i, ..., true) for i = 0..left_boundary+1, then
\* mps.LoadTen(N-1, ...).  DumpTen of a site that was never loaded
\* dereferences a null pointer: the call crashes, or it goes on.
CheckLeftDump ==
  /\ cpc = "left_dump"
  /\ LET dumped == 0..(c_lb + 1)
     IN  \E crash \in (IF dumped \subseteq c_mem THEN {FALSE} ELSE BOOLEAN) :
           IF crash
             THEN /\ cpc' = "crashed"
                  /\ UNCHANGED << c_writes, c_mem, c_i >>
             ELSE /\ c_writes' =
                       [i \in 0..(c_N - 1) |->
                          IF i \in dumped THEN c_writes[i] + 1
                          ELSE c_writes[i]]
                  /\ c_mem' = LoadTen(c_mem \ dumped, c_N - 1)
                  /\ c_i' = c_N - 1
                  /\ cpc' = "right"
  /\ UNCHANGED << masterVars, slaveVars, expandVars, mpoVars, c_N, Dmax, bond, c_lb,
                  c_rb, c_ten, c_ret, c_seen >>

\* lines 221-245, one pass of the loop "Right Side", the mirror image
CheckRightSide ==
  /\ cpc = "right"
  /\ IF c_i > right_middle_site(c_N)
       THEN LET shape2 == bond[c_i + 1]
                shape0 == IF PhysDim * bond[c_i + 1] < bond[c_i]
                            THEN PhysDim * bond[c_i + 1] ELSE bond[c_i]
                stop == LeftBreaks(PhysDim, shape2, Dmax)
            IN  /\ c_mem' = LoadTen(c_mem, c_i - 1)
                /\ c_ten' = RightCanonicalizeTen(c_ten, c_i)
                /\ bond' =
                     [bond EXCEPT ![c_i] =
                        IF ~stop /\ Fuses(PhysDim, shape2, shape0)
                          THEN FusedBond(PhysDim, shape2) ELSE shape0]
                /\ c_rb' = IF stop \/ c_i = right_middle_site(c_N) + 1
                             THEN c_i ELSE c_rb
                /\ c_i' = IF stop THEN c_i ELSE c_i - 1
                /\ cpc' = IF stop THEN "right_dump" ELSE "right"
       ELSE /\ cpc' = "right_dump"
            /\ UNCHANGED << c_mem, c_ten, bond, c_rb, c_i >>
  /\ UNCHANGED << masterVars, slaveVars, expandVars, mpoVars, c_N, Dmax, c_lb,
                  c_writes, c_ret, c_seen >>

\* line 247: the sites of for (size_t i = N-1; i >= right_boundary-1; i--),
\* with right_boundary-1 computed in size_t
RightDumped(n, rb) == { i \in 0..(n - 1) : i >= (rb - 1) % SizeMod }

\* lines 247-252: the dump loop of the right side, assert(mps.empty()),
\* return.  With right_boundary-1 = 0 the counter wraps and the loop leaves
\* the vector; the assertion aborts a build that has assertions when a
\* tensor is still resident.
CheckReturn ==
  /\ cpc = "right_dump"
  /\ LET dumped == RightDumped(c_N, c_rb)
         left == c_mem \ dumped
     IN  \E crash \in (IF dumped \subseteq c_mem /\ (c_rb - 1) % SizeMod # 0
                         THEN {FALSE} ELSE BOOLEAN),
            asserts \in (IF left = {} THEN {FALSE} ELSE BOOLEAN) :
           IF crash \/ asserts
             THEN /\ cpc' = IF crash THEN "crashed" ELSE "aborted"
                  /\ UNCHANGED << c_writes, c_mem, c_ret >>
             ELSE /\ c_writes' =
                       [i \in 0..(c_N - 1) |->
                          IF i \in dumped THEN c_writes[i] + 1
                          ELSE c_writes[i]]
                  /\ c_mem' = left
                  /\ c_ret' = Append(c_ret, << c_lb, c_rb >>)
                  /\ cpc' = "returned"
  /\ UNCHANGED << masterVars, slaveVars, expandVars, mpoVars, c_N, Dmax, bond, c_i,
                  c_lb, c_rb, c_ten, c_seen >>

\* the caller runs the function again on the MPS it has left
CheckAgain ==
  /\ cpc = "returned"
  /\ Len(c_ret) < MaxRuns
  /\ c_mem = {}
  /\ c_seen' = << bond, c_ten, c_writes >>
  /\ cpc' = "enter"
  /\ UNCHANGED << masterVars, slaveVars, expandVars, mpoVars, c_N, Dmax, bond, c_i,
                  c_lb, c_rb, c_mem, c_ten, c_writes, c_ret >>

\* ================================================ MPOGenerator::AddTerm
MaxSites == 3
MaxOps == 3
MaxPhys == 2

\* coefficients of a term, zero among them
Coefs == {0, 1, 2}

\* fault variant: the last operator listed for site i
LocalOpLoc_last(idxs, i) ==
  IF \E j \in 1..Len(idxs) : idxs[j] = i
    THEN CHOOSE j \in 1..Len(idxs) :
           idxs[j] = i /\ \A k \in (j + 1)..Len(idxs) : idxs[k] # i
    ELSE 0

\* lines 104-106: std::find(local_ops_idxs.cbegin(), local_ops_idxs.cend(),
\* i), the location of its first match, counted from 1; 0 for cend()
LocalOpLoc(idxs, i) ==
  IF \E j \in 1..Len(idxs) : idxs[j] = i
    THEN CHOOSE j \in 1..Len(idxs) :
           idxs[j] = i /\ \A k \in 1..(j - 1) : idxs[k] # i
    ELSE 0

\* lines 100-118: the loop over i = head..tail that fills ntrvl_ops_reprs:
\* OpRepr(coef_label, op_label) for the operator at location 0,
\* OpRepr(op_label) for the other listed operators and for the identity
\* id_op_vector_[i] of a site that is not listed
ntrvl_ops_reprs(c, ops, idxs) ==
  LET ntrvl_ops_idxs_head == idxs[1]
      ntrvl_ops_idxs_tail == idxs[Len(idxs)]
  IN  IF ntrvl_ops_idxs_tail < ntrvl_ops_idxs_head THEN << >>
      ELSE
      [s \in 1..(ntrvl_ops_idxs_tail - ntrvl_ops_idxs_head + 1) |->
         LET i == ntrvl_ops_idxs_head + s - 1
             local_op_loc == LocalOpLoc(idxs, i)
         IN  IF local_op_loc # 0
               THEN IF local_op_loc = 1
                      THEN [coef |-> c, op |-> ops[local_op_loc]]
                      ELSE [coef |-> 1, op |-> ops[local_op_loc]]
               ELSE [coef |-> 1, op |-> << "id", i >>]]

\* lines 93-122, the generic AddTerm: the assertions (a build with
\* assertions aborts where one fails, a build without goes on), the return
\* on a zero coefficient, fsm_.AddPath(head, tail, ntrvl_ops_reprs)
AddTerm ==
  /\ gpc = "listed"
  /\ LET ok == /\ Len(local_ops) = Len(local_ops_idxs)
               /\ \A j \in 1..(Len(local_ops_idxs) - 1) :
                    local_ops_idxs[j] <= local_ops_idxs[j + 1]
               /\ local_ops_idxs[Len(local_ops_idxs)] < N_
     IN  \E asserts \in (IF ok THEN {FALSE} ELSE BOOLEAN) :
           IF asserts
             THEN /\ gpc' = "aborted"
                  /\ UNCHANGED fsm_paths
             ELSE /\ gpc' = "added"
                  /\ fsm_paths' =
                       IF coef = 0 THEN fsm_paths
                       ELSE Append(fsm_paths,
                              [head |-> local_ops_idxs[1],
                               tail |-> local_ops_idxs[Len(local_ops_idxs)],
                               reprs |-> ntrvl_ops_reprs(coef, local_ops,
                                                         local_ops_idxs)])
  /\ UNCHANGED << masterVars, slaveVars, expandVars, cpc, c_N, Dmax, bond, c_i,
                  c_lb, c_rb, c_mem, c_ten, c_writes, c_ret, c_seen, N_, coef,
                  local_ops, local_ops_idxs, phys_ops_idxs, inst_ops,
                  inst_ops_idxs_set >>

\* lines 160-196: local_ops and local_ops_idxs as the overload with
\* physical and insertion operators builds them, one [op, idx] per
\* push_back; physical operator i is << "phys", i >>, insertion operator i
\* is << "inst", i >>
InsertionTerm(n, phys, ninst, set) ==
  LET np == Len(phys)
      between(i) ==
        IF set = << >>
          THEN IF phys[i + 1] <= phys[i] + 1 THEN << >>
               ELSE [k \in 1..(phys[i + 1] - phys[i] - 1) |->
                       [op |-> << "inst", i >>, idx |-> phys[i] + k]]
          ELSE [k \in 1..Len(set[i]) |->
                  [op |-> << "inst", i >>, idx |-> set[i][k]]]
      tail ==
        IF ninst = np
          THEN IF set = << >>
                 \* line 185: for (int j = phys_ops_idxs.back(); j < N_; ++j)
                 THEN IF n <= phys[np] THEN << >>
                      ELSE [k \in 1..(n - phys[np]) |->
                              [op |-> << "inst", np >>,
                               idx |-> phys[np] + k - 1]]
                 ELSE [k \in 1..Len(set[np]) |->
                         [op |-> << "inst", np >>, idx |-> set[np][k]]]
          ELSE << >>
      RECURSIVE upto(_)
      upto(i) ==
        IF i = 0 THEN << >>
        ELSE upto(i - 1) \o << [op |-> << "phys", i >>, idx |-> phys[i]] >>
               \o between(i)
  IN  upto(np - 1) \o << [op |-> << "phys", np >>, idx |-> phys[np]] >> \o tail

\* lines 145-198, the overload with physical and insertion operators, up
\* to its call of the generic AddTerm
AddTermInsertion ==
  /\ gpc = "insertion"
  /\ LET term == InsertionTerm(N_, phys_ops_idxs, inst_ops, inst_ops_idxs_set)
     IN  /\ local_ops' = [j \in 1..Len(term) |-> term[j].op]
         /\ local_ops_idxs' = [j \in 1..Len(term) |-> term[j].idx]
  /\ gpc' = "listed"
  /\ UNCHANGED << masterVars, slaveVars, expandVars, cpc, c_N, Dmax, bond, c_i,
                  c_lb, c_rb, c_mem, c_ten, c_writes, c_ret, c_seen, N_,
                  fsm_paths, coef, phys_ops_idxs, inst_ops, inst_ops_idxs_set >>

\* ========================================================== specifications
SlavesIdle ==
  /\ dpc = "idle"
  /\ nsent = 0
  /\ d_live = FALSE
  /\ d_valid = TRUE
  /\ d_upd = [pos |-> "start", updates |-> 0, dir |-> "r", target_site |-> 0]
  /\ inbox = [s \in Slaves |-> << >>]
  /\ spc = [s \in Slaves |-> "idle"]
  /\ sorder = [s \in Slaves |-> "program_start"]
  /\ eff_ham = [s \in Slaves |-> NullEffHam]
  /\ slog = [s \in Slaves |-> NoLog]
  /\ aborted = FALSE

Init == MasterInit /\ SlavesIdle /\ ExpandIdle /\ AuxIdle

UpdateNext ==
  \/ UpdateSwitch
  \/ UpdateLanczos
  \/ UpdateExpand
  \/ UpdateSvd
  \/ UpdateGrow

Next ==
  \/ BroadcastProgramStart
  \/ TwoSiteFiniteVMPSInit
  \/ Prepare
  \/ SweepHead
  \/ RightHead
  \/ LeftHead
  \/ UpdateNext
  \/ RightDump
  \/ LeftDump
  \/ FinalDump
  \/ BroadcastProgramFinal

Spec == Init /\ [][Next]_vars

\* the master is one process and every call it makes returns: a step it
\* can take, it takes
LiveSpec == Spec /\ WF_vars(Next)

\* one call of MasterTwoSiteFiniteVMPSUpdate(mps, lenvs, renvs, mpo,
\* sweep_params, dir, target_site, noise, world): dir is any character, the
\* tensors of the two-site window of target_site are memory-resident as the
\* load step of the direction `loaded` leaves them
UpdateInit ==
  /\ mpc = "upd_switch"
  /\ N \in 3..MaxN
  /\ sweeps = 1
  /\ noises_cfg = << >>
  /\ noises = << >>
  /\ noise \in NoiseVals
  /\ noise_set = TRUE
  /\ left_boundary = 0
  /\ right_boundary = N - 1
  /\ env_step = 0
  /\ sweep = 1
  /\ \E loaded \in {"r", "l"} :
       /\ target_site \in (IF loaded = "r" THEN 0..(N - 3) ELSE 2..(N - 1))
       /\ dir \in {loaded, "x"}
       /\ mps_mem = { UpdateLocals(loaded, target_site, N).lsite_idx,
                      UpdateLocals(loaded, target_site, N).rsite_idx,
                      next_next_site(loaded, target_site) }
       /\ lenvs = { UpdateLocals(loaded, target_site, N).lenv_len }
       /\ renvs = { UpdateLocals(loaded, target_site, N).renv_len }
       /\ lenv_sites =
            [k \in 0..(N - 2) |->
               IF k \in lenvs THEN InitEnvsTen(N, <<"l", k>>) ELSE NoTen]
       /\ renv_sites =
            [k \in 0..(N - 2) |->
               IF k \in renvs THEN InitEnvsTen(N, <<"r", k>>) ELSE NoTen]
  /\ site = target_site
  /\ upd = NoUpd
  /\ upd_base = 0
  /\ exit_status = 0
  /\ orders = << >>
  /\ updates = << >>
  /\ mps_ver = [i \in 0..(N - 1) |-> 0]
  /\ mps_disk = [i \in 0..(N - 1) |-> 0]
  /\ mps_file = CentredMps(N, target_site)
  /\ mps_ten = mps_file
  /\ temp_exists = TRUE
  /\ env_files = {}
  /\ file_sites = [f \in EnvNames |-> NoTen]

InitUpdate == UpdateInit /\ SlavesIdle /\ ExpandIdle /\ AuxIdle

SpecUpdate == InitUpdate /\ [][UpdateNext]_vars

SlaveNext ==
  \/ DriverBroadcastOrder
  \/ DriverBroadcastSite
  \/ \E s \in Slaves : SlaveStep(s)

InitSlave == MasterIdle /\ SlaveInit /\ ExpandIdle /\ AuxIdle

SpecSlave == InitSlave /\ [][SlaveNext]_vars

UpdateOrdersNext ==
  \/ DriverUpdateOrder
  \/ \E s \in Slaves : SlaveStep(s)

SpecSlaveUpdates == InitSlave /\ [][UpdateOrdersNext]_vars

\* every slave is a process of its own: a step it can take, it takes
LiveSpecSlave ==
  SpecSlave /\ \A s \in Slaves : WF_vars(SlaveStep(s))


ExpandNext ==
  \/ MasterSchedule
  \/ MasterCombine
  \/ \E k \in Slaves : ThreadStep(k)
  \/ \E s \in Slaves : SlaveExpandStep(s)

InitExpand == MasterIdle /\ SlavesIdle /\ ExpandInit /\ AuxIdle

SpecExpand == InitExpand /\ [][ExpandNext]_vars
\* the master, each of its threads and each slave runs by itself, so the
\* round does not stand still while one of them can take a step
LiveSpecExpand == SpecExpand /\ WF_vars(ExpandNext)

CheckNext ==
  \/ CheckEnter
  \/ CheckLeftSide
  \/ CheckLeftDump
  \/ CheckRightSide
  \/ CheckReturn
  \/ CheckAgain

InitCheck == MasterIdle /\ SlavesIdle /\ ExpandIdle /\ CheckInit

SpecCheck == InitCheck /\ [][CheckNext]_vars

\* the function runs in one process and the calls it makes return: a step
\* it can take, it takes
LiveSpecCheck == SpecCheck /\ WF_vars(CheckNext)

\* one call of AddTerm on a generator of 1..MaxSites sites that is empty or
\* holds one term: either the generic AddTerm with any list of sites, or
\* the overload with physical and insertion operators, with the default
\* inst_ops_idxs_set or an explicit one that names at most one site for
\* each insertion operator
MpoInit ==
  /\ MasterIdle /\ SlavesIdle /\ ExpandIdle
  /\ cpc = "idle"
  /\ c_N = 2
  /\ Dmax = 1
  /\ bond = [b \in 0..c_N |-> 1]
  /\ c_i = 0
  /\ c_lb = 0
  /\ c_rb = 0
  /\ c_mem = {}
  /\ c_ten = CentredMps(c_N, 0)
  /\ c_writes = [i \in 0..(c_N - 1) |-> 0]
  /\ c_ret = << >>
  /\ c_seen = << >>
  /\ N_ \in 1..MaxSites
  /\ fsm_paths \in
       { << >>,
         << [head |-> 0, tail |-> 0,
             reprs |-> ntrvl_ops_reprs(2, << << "op", 1 >> >>, << 0 >>)] >> }
  /\ coef \in Coefs
  /\ \/ /\ gpc = "listed"
        /\ local_ops_idxs \in SeqUpTo(0..(N_ - 1), MaxOps) \ { << >> }
        /\ local_ops = [j \in 1..Len(local_ops_idxs) |-> << "op", j >>]
        /\ phys_ops_idxs = << >>
        /\ inst_ops = 0
        /\ inst_ops_idxs_set = << >>
     \/ /\ gpc = "insertion"
        /\ local_ops = << >>
        /\ local_ops_idxs = << >>
        /\ \E np \in 2..MaxPhys :
             /\ phys_ops_idxs \in [1..np -> 0..(N_ - 1)]
             /\ inst_ops \in {np - 1, np}
        /\ inst_ops_idxs_set \in
             { << >> } \cup
               [1..inst_ops -> { << >> } \cup { << j >> : j \in 0..(N_ - 1) }]

MpoNext ==
  \/ AddTermInsertion
  \/ AddTerm

SpecMpo == MpoInit /\ [][MpoNext]_vars

\* ==================================================================== claims
InUpdate ==
  mpc \in {"upd_switch", "upd_lanczos", "upd_noise", "upd_svd", "upd_grow",
           "upd_return"}

InSweep == mpc \in {"r_head", "l_head"} \/ InUpdate

\* inside TwoSiteFiniteVMPSInit
InInit ==
  mpc \in {"init", "need_envs", "init_envs", "boundary_envs",
           "boundary_envs_loaded"}

\* the orders broadcast since the current bond update was called
UpdateOrders == SubSeq(orders, upd_base + 1, Len(orders))

IsPrefix(a, b) == Len(a) <= Len(b) /\ SubSeq(b, 1, Len(a)) = a

HasExpansionOrder(os) == \E k \in 1..Len(os) : os[k] \in ExpansionOrders

AllReturned == \A s \in Slaves : spc[s] = "returned"

\* C1: once the master has broadcast program_final after orders that are all
\* valid for the slaves (no expansion order, a growing order only with the
\* environments of a lanczos order allocated), every slave eventually has
\* received program_final, has left its loop and has returned.
C1_SlavesTerminate == (dpc = "done" /\ d_valid) ~> AllReturned

C1_Witness ==
  /\ dpc = "done"
  /\ d_valid
  /\ AllReturned
  /\ nsent >= 3
  /\ \A s \in Slaves : slog[s].ops >= 1 /\ sorder[s] = "program_final"

\* C2: a slave leaves its receive loop only in the step that handles
\* program_final, and from the moment it has received program_final it
\* receives no broadcast, sends nothing and does no tensor operation.
C2_LeavesOnlyOnFinal ==
  [][\A s \in Slaves :
       /\ (spc[s] # "returned" /\ spc'[s] = "returned")
            => sorder[s] = "program_final"
       /\ sorder[s] = "program_final"
            => /\ slog'[s] = slog[s]
               /\ sorder'[s] = sorder[s]
               /\ inbox'[s] = inbox[s]
               /\ eff_ham'[s] = eff_ham[s]
               /\ spc'[s] \in {"returned", spc[s]}]_vars

C2_Witness ==
  \E s \in Slaves :
    /\ spc[s] = "returned"
    /\ slog[s].recv >= 3
    /\ slog[s].send >= 1

\* C3: program_start is the first order and is broadcast before the boundary
\* check and the environment initialization; program_final is broadcast once,
\* as the last order, after all sweeps have completed and the tensors at
\* left_boundary and left_boundary+1 are dumped; nothing is broadcast after it.
C3_StartFirstFinalLast ==
  /\ (orders = << >>) <=> (mpc = "start")
  /\ orders # << >> => orders[1] = "program_start"
  /\ InInit => orders = << "program_start" >>
  /\ \A k \in 1..Len(orders) :
       orders[k] = "program_final" => (k = Len(orders) /\ mpc = "done")
  /\ mpc = "done" =>
       /\ orders[Len(orders)] = "program_final"
       /\ sweep = sweeps + 1
       /\ Len(updates) = sweeps * 2 * (right_boundary - left_boundary - 1)
       /\ mps_mem \cap {left_boundary, left_boundary + 1} = {}
       /\ mps_disk[left_boundary] = mps_ver[left_boundary]
       /\ mps_disk[left_boundary + 1] = mps_ver[left_boundary + 1]

C3_Witness ==
  /\ mpc = "done"
  /\ sweeps = 2
  /\ Len(orders) > 8
  /\ mps_disk[left_boundary] > 1

\* C4: the orders of one bond update are lanczos, at most one expansion order
\* of the direction, svd, and the growing order of the direction
\* (growing_left_env for 'r', growing_right_env for 'l'), in this sequence
\* and nothing else.
UpdateForms(d) ==
  LET grow == IF d = "r" THEN "growing_left_env" ELSE "growing_right_env"
      expand == IF d = "r" THEN "contract_for_right_moving_expansion"
                           ELSE "contract_for_left_moving_expansion"
  IN  { << "lanczos", "svd", grow >>, << "lanczos", expand, "svd", grow >> }

RightPass(sw, lb, rb) == [k \in 1..(rb - lb - 1) |-> <<sw, "r", lb + k - 1>>]

LeftPass(sw, lb, rb) == [k \in 1..(rb - lb - 1) |-> <<sw, "l", rb - k + 1>>]

RECURSIVE SweepPasses(_, _, _)
SweepPasses(n, lb, rb) ==
  IF n = 0 THEN << >>
  ELSE SweepPasses(n - 1, lb, rb) \o RightPass(n, lb, rb) \o LeftPass(n, lb, rb)

C5_SweepOrder ==
  mpc \notin {"start", "init"} =>
    /\ IsPrefix(updates, SweepPasses(sweeps, left_boundary, right_boundary))
    /\ mpc = "done" =>
         updates = SweepPasses(sweeps, left_boundary, right_boundary)

C5_Witness ==
  /\ mpc = "done"
  /\ sweeps = 2
  /\ right_boundary - left_boundary = 4
  /\ Len(updates) = 12

\* C6 (as claimed): a bond update broadcasts an expansion order if and only
\* if the noise magnitude exceeds the floor 1e-10.
C6_ExpansionIffAboveFloor ==
  mpc = "upd_return" =>
    (HasExpansionOrder(UpdateOrders) <=> Abs(noise) > NoiseFloor)

\* C6 (amended): a bond update broadcasts an expansion order if and only if
\* the noise magnitude is at least the floor 1e-10; it is the order of the
\* direction, broadcast after lanczos and before svd.
C6_ExpansionIffAtLeastFloor ==
  /\ mpc \in {"upd_switch", "upd_lanczos", "upd_noise"}
       => ~HasExpansionOrder(UpdateOrders)
  /\ mpc \in {"upd_svd", "upd_grow", "upd_return"} =>
       /\ HasExpansionOrder(UpdateOrders) <=> Abs(noise) >= NoiseFloor
       /\ HasExpansionOrder(UpdateOrders) =>
            /\ UpdateOrders[1] = "lanczos"
            /\ UpdateOrders[2] =
                 (IF dir = "r" THEN "contract_for_right_moving_expansion"
                               ELSE "contract_for_left_moving_expansion")
            /\ \A k \in 1..Len(UpdateOrders) :
                 UpdateOrders[k] \in ExpansionOrders => k = 2
            /\ Len(UpdateOrders) >= 3 => UpdateOrders[3] = "svd"

C6_Witness ==
  /\ mpc = "upd_return"
  /\ dir = "l"
  /\ noise = NoiseFloor
  /\ HasExpansionOrder(UpdateOrders)

\* C7: with an empty configured noise list the list becomes the single entry
\* 0.0 and no expansion order is ever broadcast.
C7_EmptyNoisesNoExpansion ==
  noises_cfg = << >> =>
    /\ (mpc \notin {"start", "prepare"} /\ ~InInit) => noises = << 0 >>
    /\ ~HasExpansionOrder(orders)

C7_Witness ==
  /\ noises_cfg = << >>
  /\ mpc = "done"
  /\ sweeps = 2
  /\ Len(updates) >= 4

\* C8 (as claimed): in a sweep beyond the end of the noise list the last
\* configured (nonzero) noise value is not reused.
C8_NoReuseBeyondList ==
  (InSweep /\ sweep > Len(noises) /\ noises[Len(noises)] # 0)
    => noise # noises[Len(noises)]

\* C8 (amended): a sweep within the list takes its noise from the list, and a
\* sweep beyond the end of the list reuses the last configured value.
C8_ReuseBeyondList ==
  InSweep =>
    /\ sweep <= Len(noises) => noise = noises[sweep]
    /\ sweep > Len(noises) => noise = noises[Len(noises)]

C8_Witness ==
  /\ mpc = "upd_return"
  /\ sweep = 2
  /\ Len(noises) = 1
  /\ noise = NoiseFloor
  /\ HasExpansionOrder(UpdateOrders)

\* C9: an update called with a dir other than 'r' and 'l' exits with status
\* 1 in its first step: no order is broadcast, no MPS or environment tensor
\* and no file is changed.
C9_BadDirExits ==
  [][dir \notin {"r", "l"} =>
       /\ mpc' = "exited"
       /\ exit_status' = ExitStatus
       /\ UNCHANGED << orders, mpsv, envv, fsv >>]_vars

C9_Witness ==
  /\ mpc = "exited"
  /\ dir = "x"
  /\ exit_status = ExitStatus
  /\ orders = << >>
  /\ mps_mem # {}

\* C10: a slave that receives an expansion order aborts the job in its next
\* step; once the job is aborted no process takes a step, and when a slave
\* has received an expansion order no slave has returned.
C10_ExpansionAborts ==
  [][/\ ~aborted
     /\ \A s \in Slaves :
          (spc[s] = "dispatch" /\ sorder[s] \in ExpansionOrders
             /\ spc'[s] # spc[s])
            => (aborted' /\ spc'[s] = "aborted")
     /\ (\E s \in Slaves : sorder'[s] \in ExpansionOrders)
          => \A s \in Slaves : spc'[s] # "returned"]_vars

C10_Witness ==
  /\ aborted
  /\ \E s \in Slaves : spc[s] = "aborted" /\ slog[s].recv >= 2
  /\ \E s \in Slaves : spc[s] = "recv" /\ inbox[s] # << >>

\* C11: a slave that dispatches an order it has no case for (the six enum
\* values without a case, or a value outside the enum) changes none of its
\* effective-Hamiltonian pointers, sends nothing, receives nothing and goes
\* back to the broadcast receive.
NoCaseOrders ==
  {"init_grow_env", "init_grow_env_grow", "init_grow_env_finish",
   "lanczos_mat_vec_dynamic", "lanczos_mat_vec_static", "lanczos_finish",
   UnknownOrder}

C11_UnknownOrderIgnored ==
  [][\A s \in Slaves :
       (spc[s] = "dispatch" /\ sorder[s] \in NoCaseOrders
          /\ spc'[s] # spc[s])
         => /\ eff_ham'[s] = eff_ham[s]
            /\ slog'[s] = slog[s]
            /\ inbox'[s] = inbox[s]
            /\ sorder'[s] = sorder[s]
            /\ spc'[s] = "recv"
            /\ ~aborted']_vars

C11_Witness ==
  \E s \in Slaves :
    /\ spc[s] = "recv"
    /\ sorder[s] = UnknownOrder
    /\ eff_ham[s].p0 = "live"
    /\ slog[s].recv = 3
    /\ \E r \in Slaves : spc[r] = "recv" /\ sorder[r] = "lanczos_finish"

\* C12: from the first sweep on, an MPS tensor is written only inside an
\* update, only at the two active sites or at the next-next site of the
\* expansion, and only at sites within [left_boundary, right_boundary];
\* the tensors outside the range keep their value.
C12_WritesInsideBoundaries ==
  [][mpc \notin {"start", "init"} =>
       \A i \in Sites :
         mps_ver'[i] # mps_ver[i] =>
           /\ left_boundary <= i
           /\ i <= right_boundary
           /\ InUpdate
           /\ i \in {upd.lsite_idx, upd.rsite_idx,
                     IF dir = "r" THEN target_site + 2 ELSE target_site - 2}]_vars

C12_Witness ==
  /\ mpc = "done"
  /\ left_boundary >= 1
  /\ right_boundary <= N - 2
  /\ sweeps >= 1
  /\ HasExpansionOrder(orders)
  /\ mps_ver[right_boundary] >= 3
  /\ mps_ver[0] = 1

\* a step of a sweep loop that runs the load step of the direction
LoadStep(d) ==
  /\ mpc = (IF d = "r" THEN "r_head" ELSE "l_head")
  /\ mpc' = "upd_switch"

\* C13 (as claimed): a load step removes the file of every environment it
\* loads, and removes no file of an environment it does not load.
C13_LoadRemovesFile ==
  [][(LoadStep("r") \/ LoadStep("l")) =>
       /\ \A k \in lenvs' \ lenvs : <<"l", k>> \notin env_files'
       /\ \A k \in renvs' \ renvs : <<"r", k>> \notin env_files'
       /\ \A f \in env_files \ env_files' :
            f[2] \in (IF f[1] = "l" THEN lenvs' \ lenvs ELSE renvs' \ renvs)]_vars

\* C13 (amended): away from the boundaries a load step loads one
\* environment and removes exactly its file.  The right-moving step at
\* target = left_boundary also loads the left environment of length
\* left_boundary and keeps its file; the left-moving step at target =
\* right_boundary loads the right environment of length (N-1)-right_boundary
\* and keeps its file, and removes the file of the left environment of
\* length right_boundary-1 without loading it.
C13_LoadRemovesFileButBoundary ==
  [][/\ LoadStep("r") =>
          LET t == site
              r == N - (t + 2)
          IN  /\ renvs' = renvs \cup {r}
              /\ <<"r", r>> \notin env_files'
              /\ env_files \ env_files' \subseteq { <<"r", r>> }
              /\ env_files' \subseteq env_files
              /\ IF t # left_boundary
                   THEN lenvs' = lenvs
                   ELSE /\ lenvs' = lenvs \cup {t}
                        /\ <<"l", t>> \in env_files' <=> <<"l", t>> \in env_files
     /\ LoadStep("l") =>
          LET t == site
          IN  /\ <<"l", t - 1>> \notin env_files'
              /\ env_files \ env_files' \subseteq { <<"l", t - 1>> }
              /\ env_files' \subseteq env_files
              /\ IF t # right_boundary
                   THEN /\ lenvs' = lenvs \cup {t - 1}
                        /\ renvs' = renvs
                   ELSE /\ lenvs' = lenvs
                        /\ renvs' = renvs \cup {(N - 1) - t}
                        /\ <<"r", (N - 1) - t>> \in env_files'
                             <=> <<"r", (N - 1) - t>> \in env_files]_vars

C13_Witness ==
  /\ mpc = "upd_switch"
  /\ dir = "l"
  /\ target_site = right_boundary
  /\ sweep = 2
  /\ (N - 1) - right_boundary \in renvs
  /\ <<"r", (N - 1) - right_boundary>> \in env_files
  /\ <<"l", right_boundary - 1>> \notin env_files
  /\ <<"l", left_boundary>> \in env_files

\* C14: NeedGenerateRightEnvs returns true, and InitEnvs then regenerates
\* the environments, exactly when temp_path is absent (the call creates it)
\* or a right-environment file of a length in [(N-1)-right_boundary,
\* (N-1)-(left_boundary+1)] is missing; otherwise it returns false and
\* nothing is regenerated; the call changes no environment file and no
\* case ends the run.
RightEnvMissing ==
  \E k \in ((N - 1) - right_boundary)..((N - 1) - (left_boundary + 1)) :
    <<"r", k>> \notin env_files

C14_RegenerateIffMissing ==
  [][/\ mpc = "need_envs" =>
          /\ mpc' = (IF ~temp_exists \/ RightEnvMissing
                       THEN "init_envs" ELSE "boundary_envs")
          /\ temp_exists'
          /\ env_files' = env_files
          /\ exit_status' = 0
     /\ mpc = "init_envs" =>
          /\ mpc' = "boundary_envs"
          /\ \A k \in 0..(N - (left_boundary + 2)) : <<"r", k>> \in env_files'
          /\ exit_status' = 0
     /\ env_files' # env_files => mpc # "need_envs"]_vars

C14_Witness ==
  /\ mpc = "boundary_envs"
  /\ right_boundary < N - 1
  /\ <<"r", 0>> \notin env_files
  /\ <<"r", 1>> \in env_files

\* the slave a block in flight to the master comes from
PendingFrom(s) == { i \in 1..Len(to_master) : to_master[i].src = s }

\* C15: with fewer slaves than tasks the tasks beyond one per slave are
\* handed out in the sorted order, which is non-increasing in degeneracy,
\* each to a thread whose slave has finished its previous task and is idle;
\* with at least as many slaves as tasks slave k <= task_size executes task
\* k-1 only and nothing else is scheduled.
C15_GreedyScheduling ==
  xpc \in {"parallel", "expanded"} =>
    IF slave_size < task_size
      THEN /\ Len(arraging_tasks) = task_size - slave_size
           /\ { arraging_tasks[i] : i \in DOMAIN arraging_tasks }
                = slave_size..(task_size - 1)
           /\ \A i, j \in DOMAIN arraging_tasks :
                i < j => task_difficuty[arraging_tasks[i]]
                           >= task_difficuty[arraging_tasks[j]]
           /\ Len(handed) <= Len(arraging_tasks)
           /\ \A n \in DOMAIN handed :
                handed[n][2] = n - 1 /\ handed[n][3] = arraging_tasks[n]
           /\ \A k \in Slaves :
                tpc[k] = "send" =>
                  /\ epc[k] = "wait"
                  /\ PendingFrom(k) = {}
                  /\ to_slave[k] = << >>
                  /\ \E n \in DOMAIN handed :
                       handed[n][1] = k /\ handed[n][2] = titer[k]
           /\ \A n \in DOMAIN exec_log :
                n <= Len(exec_log) =>
                  \/ exec_log[n][2] = exec_log[n][1] - 1
                  \/ \E m \in 1..(n - 1) : exec_log[m][1] = exec_log[n][1]
           /\ xpc = "expanded" => Len(handed) = Len(arraging_tasks)
      ELSE /\ handed = << >>
           /\ arraging_tasks = << >>
           /\ \A n \in DOMAIN exec_log :
                /\ exec_log[n][1] <= task_size
                /\ exec_log[n][2] = exec_log[n][1] - 1
           /\ \A n, m \in DOMAIN exec_log :
                n # m => exec_log[n][1] # exec_log[m][1]
           /\ \A s \in Slaves : \A i \in DOMAIN to_slave[s] :
                to_slave[s][i][2] >= task_size
           /\ xpc = "expanded" => Len(exec_log) = task_size

C15_Witness ==
  /\ xpc = "expanded"
  /\ task_size = 4
  /\ task_difficuty[2] < task_difficuty[3]
  /\ handed = << <<2, 0, 3>>, <<2, 1, 2>> >>
  /\ epc[1] = "wait"

\* C16: every task index is executed at most once, is held by at most one
\* slave at any time (as its current task, as a task message on its way to
\* it, or as a task it has executed), and when the round is over every task
\* has been executed exactly once and the master combines task_size blocks.
Holders(t) ==
  { s \in Slaves :
      \/ epc[s] = "work" /\ etask[s] = t
      \/ \E i \in DOMAIN to_slave[s] : to_slave[s][i][2] = t
      \/ \E n \in DOMAIN exec_log : exec_log[n] = <<s, t>> }

C16_EachTaskOnce ==
  xpc \in {"schedule", "parallel", "expanded"} =>
    /\ \A n \in DOMAIN exec_log : exec_log[n][2] \in Tasks
    /\ \A n, m \in DOMAIN exec_log :
         n # m => exec_log[n][2] # exec_log[m][2]
    /\ \A t \in Tasks : Cardinality(Holders(t)) <= 1
    /\ xpc = "expanded" =>
         /\ { exec_log[n][2] : n \in DOMAIN exec_log } = Tasks
         /\ Len(exec_log) = task_size
         /\ combined = task_size
         /\ { res_list[j][i].task : j \in Tasks, i \in {1} } = Tasks
         /\ \A s \in Slaves : epc[s] # "work"

C16_Witness ==
  /\ xpc = "expanded"
  /\ task_size = 4
  /\ combined = 4
  /\ Cardinality({ n \in DOMAIN exec_log : exec_log[n][1] = 1 }) = 3

\* C17: every slot of res_list is written at most once; slot k-1 is written
\* by the thread controlling slave k, slot i+slave_size by the one thread
\* that was handed iteration i; when the round is over every slot has been
\* written exactly once.
C17_DisjointSlots ==
  xpc \in {"schedule", "parallel", "expanded"} =>
    /\ \A j \in Tasks : Len(res_list[j]) <= 1
    /\ \A j \in Tasks :
         (res_list[j] # << >> /\ j < slave_size)
           => res_list[j][1].thread = j + 1
    /\ \A j \in Tasks :
         (res_list[j] # << >> /\ j >= slave_size)
           => \E n \in DOMAIN handed :
                /\ handed[n][2] = j - slave_size
                /\ handed[n][1] = res_list[j][1].thread
    /\ \A n, m \in DOMAIN handed : n # m => handed[n][2] # handed[m][2]
    /\ xpc = "expanded" => \A j \in Tasks : Len(res_list[j]) = 1

C17_Witness ==
  /\ xpc = "expanded"
  /\ task_size = 4
  /\ res_list[2][1].thread = 2
  /\ res_list[3][1].thread = 1

\* C18: a control message to slave k carries the tag 2*k and a task index
\* or the finish signal; a block carries as tag the task it holds; a block
\* the master has received came from the controlling slave of the receiving
\* thread and holds the task the thread was waiting for; and a posted
\* receive never has two messages to choose from.
C18_TagsMatch ==
  xpc \in {"schedule", "parallel", "expanded"} =>
    /\ \A s \in Slaves : \A i \in DOMAIN to_slave[s] :
         /\ to_slave[s][i][1] = 2 * s
         /\ to_slave[s][i][2] \in Tasks \cup {2 * task_size}
    /\ \A i \in DOMAIN to_master :
         /\ to_master[i].tag = to_master[i].task
         /\ to_master[i].task \in Tasks
    /\ \A j \in Tasks : \A i \in DOMAIN res_list[j] :
         /\ res_list[j][i].src = res_list[j][i].thread
         /\ res_list[j][i].task =
              (IF j < slave_size THEN j
                                 ELSE arraging_tasks[j - slave_size + 1])
    /\ \A k \in Slaves :
         /\ Cardinality(PendingFrom(k)) <= 1
         /\ Len(to_slave[k]) <= 1
         /\ tpc[k] = "recv" =>
              \A i \in PendingFrom(k) :
                to_master[i].tag = arraging_tasks[titer[k] + 1]
         /\ tpc[k] = "recv_first" =>
              \A i \in PendingFrom(k) : to_master[i].tag = k - 1

C18_Witness ==
  /\ xpc = "parallel"
  /\ task_size = 4
  /\ tpc[1] = "recv"
  /\ tpc[2] = "recv"
  /\ Len(to_master) = 2
  /\ to_master[1].src = 2
  /\ to_master[1].tag = 2
  /\ to_master[2].tag = 3

\* ---------------------------------------------------------------- C19
\* the k outermost sites of a side
OutermostSites(side, k) ==
  IF side = "l" THEN 0..(k - 1) ELSE (N - k)..(N - 1)

\* env summarizes exactly the k outermost sites of its side, each once
Summarizes(env, side, k) ==
  /\ Len(env) = k
  /\ { env[i] : i \in 1..Len(env) } = OutermostSites(side, k)
  /\ \A i, j \in 1..Len(env) : i # j => env[i] # env[j]

\* every environment tensor, memory-resident or in a file, of length k
\* summarizes the k outermost sites of its side
EnvsSummarize ==
  /\ \A k \in DOMAIN lenv_sites :
       lenv_sites[k] # NoTen => Summarizes(lenv_sites[k], "l", k)
  /\ \A k \in DOMAIN renv_sites :
       renv_sites[k] # NoTen => Summarizes(renv_sites[k], "r", k)
  /\ \A k \in 0..N :
    /\ file_sites[<<"l", k>>] # NoTen =>
         Summarizes(file_sites[<<"l", k>>], "l", k)
    /\ file_sites[<<"r", k>>] # NoTen =>
         Summarizes(file_sites[<<"r", k>>], "r", k)

\* the step of an update that stores the new environment: moving right
\* the left environment of length t+1, made of the one of length t and
\* site t; moving left the right environment of length N-t, made of the one
\* of length N-t-1 and site t
GrowsByTargetSite ==
  (mpc = "upd_grow" /\ mpc' = "upd_return") =>
    IF dir = "r"
      THEN /\ lenv_sites[target_site] # NoTen
           /\ (target_site + 1) \in lenvs'
           /\ lenv_sites'[target_site + 1] =
                Append(lenv_sites[target_site], target_site)
      ELSE /\ renv_sites[N - target_site - 1] # NoTen
           /\ (N - target_site) \in renvs'
           /\ renv_sites'[N - target_site] =
                Append(renv_sites[N - target_site - 1], target_site)

\* C19: an update with dir = 'r' at target site t stores the left
\* environment of length t+1 built from the left environment of length t
\* and site t, an update with dir = 'l' stores the right environment of
\* length N-t built from the right environment of length N-t-1 and site t;
\* so every environment of length k, in memory or in a file, summarizes
\* exactly the k outermost sites of its side, each absorbed once.
C19_EnvironmentGrowth == []EnvsSummarize /\ [][GrowsByTargetSite]_vars

\* a second sweep has stored, moving left, a right environment of at least
\* two sites, while a left environment of the right pass is still in its file
C19_Witness ==
  /\ mpc = "upd_return"
  /\ dir = "l"
  /\ sweep = 2
  /\ Len(renv_sites[N - target_site]) >= 2
  /\ renv_sites[N - target_site] # NoTen
  /\ \E k \in 1..N : file_sites[<<"l", k>>] # NoTen

\* ---------------------------------------------------------------- C20
\* the MPS tensor of site i as the program holds it: the memory-resident
\* tensor, or the tensor of the file
MpsTen(i) == IF i \in mps_mem THEN mps_ten[i] ELSE mps_file[i]

\* the two-site window of the update being entered
lsite_idx == UpdateLocals(dir, target_site, N).lsite_idx

rsite_idx == UpdateLocals(dir, target_site, N).rsite_idx

CanonicalOutsideWindow ==
  \A i \in Sites :
    /\ i < lsite_idx => IsLeftCanonical(MpsTen(i))
    /\ i > rsite_idx => IsRightCanonical(MpsTen(i))

\* the step that writes the result of the SVD: moving right the left site
\* receives U and the right site S*Vt, moving left the left site receives
\* U*S and the right site Vt
SvdAssigns ==
  (mpc = "upd_svd" /\ mpc' = "upd_grow") =>
    IF dir = "r"
      THEN mps_ten'[lsite_idx] = "U" /\ mps_ten'[rsite_idx] = "S*Vt"
      ELSE mps_ten'[lsite_idx] = "U*S" /\ mps_ten'[rsite_idx] = "Vt"

\* C20: at the start of every bond update of every sweep every MPS site to
\* the left of the two-site window is left-canonical and every site to its
\* right is right-canonical; the boundary check establishes it, the update
\* keeps it by giving U and S*Vt (moving right) or U*S and Vt (moving left)
\* to the two sites of the window, and the expansion of the next-next site
\* does not break it.
C20_CanonicalOutsideWindow ==
  /\ [](mpc = "upd_switch" => CanonicalOutsideWindow)
  /\ [][SvdAssigns]_vars

\* a bond update of the second sweep starts, moving left, right after an
\* update that has expanded the left site of its window, with canonical
\* sites on both sides of the window
C20_Witness ==
  /\ mpc = "upd_switch"
  /\ sweep = 2
  /\ dir = "l"
  /\ mps_ten[lsite_idx] = "expanded"
  /\ lsite_idx > 0
  /\ rsite_idx < N - 1
  /\ MpsTen(lsite_idx - 1) = "U"
  /\ MpsTen(rsite_idx + 1) = "Vt"

\* ---------------------------------------------------------------- C21
\* a run of CheckAndUpdateBoundaryMPSTensors on the MPS a previous run has
\* left has returned
Reran == cpc = "returned" /\ Len(c_ret) >= 2

\* C21 as stated: the second run returns the same pair and rewrites no MPS
\* tensor file
C21_RerunIsNoOp ==
  Reran =>
    /\ c_ret[Len(c_ret)] = c_ret[Len(c_ret) - 1]
    /\ c_writes = c_seen[3]

\* C21: a second run returns the same pair of boundaries and leaves every
\* bond dimension and every canonical form as the first run left them, and
\* it writes the file of every site 0..left_boundary+1 and
\* right_boundary-1..N-1 once more per dump loop that covers the site.
C21_RerunKeepsResult ==
  Reran =>
    /\ c_ret[Len(c_ret)] = c_ret[Len(c_ret) - 1]
    /\ bond = c_seen[1]
    /\ c_ten = c_seen[2]
    /\ \A i \in 0..(c_N - 1) :
         c_writes[i] = c_seen[3][i] + BoundaryTouched(c_N, c_lb, c_rb, i)

\* a second run has returned on a chain where the first run fused site 0
\* and stopped at site 1, above Dmax; the file of site 0 was written twice
C21_Witness ==
  /\ Reran
  /\ c_lb = 1
  /\ bond[1] = PhysDim
  /\ bond[1] * PhysDim > Dmax
  /\ c_writes[0] = 2

\* ---------------------------------------------------------------- C22
\* C22: for every chain length N >= 2 the boundaries returned satisfy
\* left_boundary < right_boundary <= N-1, and the range
\* [left_boundary, right_boundary] has at least four sites when N is even
\* and at least three when N is odd.
C22_BoundariesSpanWindow ==
  cpc = "returned" =>
    /\ c_lb < c_rb
    /\ c_rb <= c_N - 1
    /\ c_rb - c_lb + 1 >= (IF c_N % 2 = 0 THEN 4 ELSE 3)

\* ---------------------------------------------------------------- C23
\* the sites below the left middle site whose fused dimension (left bond
\* times physical dimension) exceeds Dmax
LeftAbove ==
  { i \in 0..(left_middle_site(c_N) - 1) : bond[i] * PhysDim > Dmax }

\* the sites above the right middle site whose fused dimension (physical
\* dimension times right bond) exceeds Dmax
RightAbove ==
  { i \in (right_middle_site(c_N) + 1)..(c_N - 1) :
      PhysDim * bond[i + 1] > Dmax }

InBoundaryEnvs == mpc \in {"boundary_envs", "boundary_envs_loaded"}

\* a step of UpdateBoundaryEnvs changes no environment file but the left
\* one of length left_boundary and the right ones of lengths
\* N-right_boundary-1 and N-right_boundary
OnlyBoundaryFilesChange ==
  InBoundaryEnvs =>
    \A f \in EnvNames :
      (file_sites'[f] # file_sites[f] \/ (f \in env_files') # (f \in env_files))
        => f \in { <<"l", left_boundary>>, <<"r", N - right_boundary - 1>>,
                   <<"r", N - right_boundary>> }

\* on return the three files are there, the left one over the sites
\* 0..left_boundary-1, the right ones over right_boundary+1..N-1 and
\* right_boundary..N-1, each site once, and no MPS tensor is resident
ReturnsBoundaryFiles ==
  (InBoundaryEnvs /\ mpc' = "prepare") =>
    /\ mps_mem' = {}
    /\ { <<"l", left_boundary>>, <<"r", N - right_boundary - 1>>,
         <<"r", N - right_boundary>> } \subseteq env_files'
    /\ Summarizes(file_sites'[<<"l", left_boundary>>], "l", left_boundary)
    /\ Summarizes(file_sites'[<<"r", N - right_boundary - 1>>], "r",
                  N - right_boundary - 1)
    /\ Summarizes(file_sites'[<<"r", N - right_boundary>>], "r",
                  N - right_boundary)

\* C25: UpdateBoundaryEnvs writes exactly three environment files, the left
\* environment of length left_boundary (sites 0..left_boundary-1, each
\* once), the right environment of length N-right_boundary-1 (sites
\* right_boundary+1..N-1) and the right environment of length
\* N-right_boundary (sites right_boundary..N-1); it holds at most one MPS
\* tensor in memory at any time and returns with the MPS empty.
C25_ThreeBoundaryFiles ==
  /\ [](InBoundaryEnvs => Cardinality(mps_mem) <= 1)
  /\ [][OnlyBoundaryFilesChange /\ ReturnsBoundaryFiles]_vars

\* UpdateBoundaryEnvs has returned after creating a left environment of at
\* least one site and a right environment of at least two
C25_Witness ==
  /\ mpc = "prepare"
  /\ left_boundary >= 1
  /\ right_boundary <= N - 2
  /\ file_sites[<<"l", left_boundary>>] = << 0 >>
  /\ Len(file_sites[<<"r", N - right_boundary>>]) >= 2
  /\ mps_mem = {}

\* ---------------------------------------------------------------- C27
\* the generic AddTerm returns
AddTermReturns == gpc = "listed" /\ gpc' = "added"

\* the site indexes are ascending, as std::is_sorted has it
Ascending ==
  \A j \in 1..(Len(local_ops_idxs) - 1) :
    local_ops_idxs[j] <= local_ops_idxs[j + 1]

\* the path the call has added
AddedPath == fsm_paths'[Len(fsm_paths')]

\* exactly one path is added, from the first to the last listed site, with
\* one operator per site of the range, the identity of the site on unlisted
\* sites and the coefficient on the first operator only
OnePathOverRange ==
  /\ Len(fsm_paths') = Len(fsm_paths) + 1
  /\ \A k \in 1..Len(fsm_paths) : fsm_paths'[k] = fsm_paths[k]
  /\ AddedPath.head = local_ops_idxs[1]
  /\ AddedPath.tail = local_ops_idxs[Len(local_ops_idxs)]
  /\ Len(AddedPath.reprs) = AddedPath.tail - AddedPath.head + 1
  /\ \A i \in AddedPath.head..AddedPath.tail :
       (\A j \in 1..Len(local_ops_idxs) : local_ops_idxs[j] # i) =>
         AddedPath.reprs[i - AddedPath.head + 1].op = << "id", i >>
  /\ AddedPath.reprs[1].coef = coef
  /\ \A s \in 2..Len(AddedPath.reprs) : AddedPath.reprs[s].coef = 1

\* every listed operator stands on its site
ListedOperatorsPlaced ==
  \A j \in 1..Len(local_ops_idxs) :
    AddedPath.reprs[local_ops_idxs[j] - AddedPath.head + 1].op = local_ops[j]

\* the first operator listed for a site stands on it
FirstListedOperatorsPlaced ==
  \A j \in 1..Len(local_ops_idxs) :
    (\A k \in 1..(j - 1) : local_ops_idxs[k] # local_ops_idxs[j]) =>
      AddedPath.reprs[local_ops_idxs[j] - AddedPath.head + 1].op = local_ops[j]

DefaultInsertionListed ==
  /\ gpc = "listed"
  /\ phys_ops_idxs # << >>
  /\ inst_ops_idxs_set = << >>
  /\ \A i \in 1..(Len(phys_ops_idxs) - 1) :
       phys_ops_idxs[i] < phys_ops_idxs[i + 1]

\* the list names site s with insertion operator i
InsertedAt(i, s) ==
  \E j \in 1..Len(local_ops_idxs) :
    local_ops_idxs[j] = s /\ local_ops[j] = << "inst", i >>

\* insertion operator i stands on every site strictly between physical
\* operators i and i+1, the last one, when there are as many insertion as
\* physical operators, on every site behind the last physical operator
InsertionsPlaced ==
  /\ \A i \in 1..(Len(phys_ops_idxs) - 1) :
       \A s \in (phys_ops_idxs[i] + 1)..(phys_ops_idxs[i + 1] - 1) :
         InsertedAt(i, s)
  /\ inst_ops = Len(phys_ops_idxs) =>
       \A s \in (phys_ops_idxs[Len(phys_ops_idxs)] + 1)..(N_ - 1) :
         InsertedAt(inst_ops, s)

\* the list names every site at most once
NamesSitesOnce ==
  \A j, k \in 1..Len(local_ops_idxs) :
    j # k => local_ops_idxs[j] # local_ops_idxs[k]

\* C28: in AddTerm with physical and insertion operators and the default
\* inst_ops_idxs_set, insertion operator i is placed on every site strictly
\* between physical operators i and i+1 and, when inst_ops.size() ==
\* phys_ops.size(), the last insertion operator on every site behind the
\* last physical operator up to site N-1; the list handed to the generic
\* AddTerm names every site at most once, so a physical operator's site
\* never also receives an insertion operator.
C28_InsertionNamesSitesOnce ==
  DefaultInsertionListed => (InsertionsPlaced /\ NamesSitesOnce)

\* ---------------------------------------------------------------- C30
\* the sweep loop takes up a sweep beyond the end of the noise list
SweepBeyondList ==
  /\ mpc = "sweep_head"
  /\ sweep <= sweeps
  /\ sweep > Len(noises)

\* C30: in MasterTwoSiteFiniteVMPS the noise passed to sweep s (1-based) is
\* noises[min(s, len(noises)) - 1]; a sweep beyond the end of the noise list
\* keeps the value used in the previous sweep; and because an empty list is
\* first replaced by [0.0] the noise variable is always assigned before its
\* first use.
C30_NoisePerSweep ==
  /\ [](InSweep =>
          /\ noise_set
          /\ noise = noises[IF sweep <= Len(noises) THEN sweep ELSE Len(noises)])
  /\ [][SweepBeyondList => (noise_set /\ noise' = noise)]_vars

\* the second sweep of a run with a list of one negative noise starts on
\* that noise
C30_Witness ==
  /\ mpc = "r_head"
  /\ sweep = 2
  /\ site = left_boundary
  /\ Len(noises_cfg) = 1
  /\ noises_cfg[1] < 0
  /\ noise_set
  /\ noise = noises_cfg[1]

\* ---------------------------------------------------------------- C31
\* slave s handles the case of the order it holds
HandlesCase(s) == spc[s] = "dispatch" /\ spc'[s] # "dispatch"

\* the two environment tensors of slave s are allocated
BothLive(eh) == eh.p0 = "live" /\ eh.p3 = "live"

\* a lanczos order finds no environment allocated and allocates both; a
\* growing order finds both allocated and frees both, without leaving the
\* defined behaviour; no other order touches them
EnvsAllocatedAndFreed ==
  \A s \in Slaves :
    HandlesCase(s) =>
      IF sorder[s] = "lanczos"
        THEN /\ eff_ham[s].p0 # "live"
             /\ eff_ham[s].p3 # "live"
             /\ BothLive(eff_ham'[s])
      ELSE IF sorder[s] \in GrowingOrders
        THEN /\ BothLive(eff_ham[s])
             /\ spc'[s] = "recv"
             /\ eff_ham'[s].p0 = "freed"
             /\ eff_ham'[s].p3 = "freed"
      ELSE eff_ham'[s] = eff_ham[s]

\* C31: under the master's per-update order sequence (lanczos, optional
\* expansion, svd, then growing_left_env or growing_right_env) a slave
\* running SlaveTwoSiteFiniteTDVP allocates eff_ham[0] and eff_ham[3] at each
\* lanczos order and frees each of them exactly once at the following growing
\* order, so after any number of updates no environment tensor is freed
\* twice, dereferenced after being freed, or still allocated when the next
\* lanczos order arrives.
C31_EnvsFreedOncePerUpdate ==
  /\ [](\A s \in Slaves : spc[s] # "crashed")
  /\ [][EnvsAllocatedAndFreed]_vars

\* a slave has freed the environments of a first update and allocated
\* those of a second update, which moves left
C31_Witness ==
  /\ d_upd.updates = 2
  /\ d_upd.dir = "l"
  /\ slog[1].ops >= 4
  /\ BothLive(eff_ham[1])
  /\ eff_ham[1].p2 = d_upd.target_site
  /\ spc[1] = "recv"

\* ---------------------------------------------------------------- C32
\* the finish signals in flight to slave s
FinishesInFlight(s) ==
  { i \in DOMAIN to_slave[s] : to_slave[s][i][2] = 2 * task_size }

\* slave s takes a control message off its channel
ReceivesControl(s) ==
  /\ epc[s] = "wait"
  /\ Len(to_slave'[s]) < Len(to_slave[s])

\* the finish signal is no task; every finish signal sent to a slave with
\* a task of its own is in flight or has made the slave return, and there
\* is one only; a slave without a task has no message to it or from it
FinishSignalOnce ==
  /\ 2 * task_size \notin Tasks
  /\ \A s \in Slaves :
       IF s <= task_size
         THEN /\ Cardinality(FinishesInFlight(s))
                   + (IF epc[s] = "returned" THEN 1 ELSE 0)
                 = (IF tpc[s] = "joined" THEN 1 ELSE 0)
              /\ epc[s] = "returned" =>
                   etask[s] = 2 * task_size /\ to_slave[s] = << >>
         ELSE /\ epc[s] \in {"start", "returned"}
              /\ to_slave[s] = << >>
              /\ PendingFrom(s) = {}
              /\ \A n \in DOMAIN exec_log : exec_log[n][1] # s
              /\ \A j \in Tasks : \A i \in DOMAIN res_list[j] :
                   res_list[j][i].src # s

\* a slave with a task of its own leaves its loop in the step that
\* receives the finish signal and in no other
LeavesOnFinishSignal ==
  \A s \in Slaves :
    s <= task_size =>
      ((epc[s] # "returned" /\ epc'[s] = "returned")
         <=> (ReceivesControl(s) /\ etask'[s] = 2 * task_size))

\* the round is over: the master has combined, every slave has returned
\* and no message is left
RoundOver ==
  /\ xpc = "expanded"
  /\ \A s \in Slaves : epc[s] = "returned" /\ to_slave[s] = << >>
  /\ to_master = << >>

\* C32: the finish signal 2*task_size is no task index; a slave with rank
\* <= task_size leaves its task loop exactly when it receives the finish
\* signal and receives exactly one; a slave with rank > task_size returns
\* without a message to or from it; and under fair scheduling the master,
\* its threads and all slaves complete the round.
C32_FinishSignalEndsRound ==
  /\ [](FinishSignalOnce)
  /\ [][LeavesOnFinishSignal]_vars
  /\ <>RoundOver

C32_Witness ==
  /\ RoundOver
  /\ task_size = 1
  /\ tpc[1] = "joined"
  /\ tpc[2] = "none"
  /\ etask[1] = 2
  /\ exec_log = << <<1, 0>> >>

\* ---------------------------------------------------------------- C33
\* the bond (k, k+1) an entry of the update log works on: k is the left
\* site of its two-site window
BondOf(u) == UpdateLocals(u[2], u[3], N).lsite_idx

\* how often the pass in direction d of sweep sw has updated bond k
BondUpdates(sw, d, k) ==
  Cardinality({ n \in DOMAIN updates :
                  /\ updates[n][1] = sw
                  /\ updates[n][2] = d
                  /\ BondOf(updates[n]) = k })

\* the right-moving pass of sweep sw has ended
RightPassOver(sw) ==
  \/ sw < sweep
  \/ sw = sweep /\ (mpc = "l_head" \/ (InUpdate /\ dir = "l"))

\* the sweep sw has ended
SweepOver(sw) == sw < sweep

\* C33: in every sweep each bond (k, k+1), left_boundary <= k <=
\* right_boundary-1, is updated at least once: the bond at left_boundary in
\* the right-moving pass only, the bond at right_boundary-1 in the
\* left-moving pass only, every other bond exactly once in each pass; and no
\* other bond is updated.
C33_EveryBondEverySweep ==
  (mpc \notin {"start"} /\ ~InInit) =>
    /\ \A n \in DOMAIN updates :
         BondOf(updates[n]) \in left_boundary..(right_boundary - 1)
    /\ \A sw \in 1..sweeps : \A k \in left_boundary..(right_boundary - 1) :
         /\ BondUpdates(sw, "r", k) <= 1
         /\ BondUpdates(sw, "l", k) <= 1
         /\ k = left_boundary => BondUpdates(sw, "l", k) = 0
         /\ k = right_boundary - 1 => BondUpdates(sw, "r", k) = 0
         /\ (RightPassOver(sw) /\ k # right_boundary - 1)
              => BondUpdates(sw, "r", k) = 1
         /\ (SweepOver(sw) /\ k # left_boundary)
              => BondUpdates(sw, "l", k) = 1
         /\ SweepOver(sw)
              => BondUpdates(sw, "r", k) + BondUpdates(sw, "l", k) >= 1

C33_Witness ==
  /\ mpc = "done"
  /\ sweeps = 2
  /\ right_boundary - left_boundary = 3
  /\ BondUpdates(2, "r", left_boundary + 1) = 1
  /\ BondUpdates(2, "l", left_boundary + 1) = 1
  /\ BondUpdates(2, "l", left_boundary) = 0
  /\ BondUpdates(2, "r", right_boundary - 1) = 0

\* ---------------------------------------------------------------- C34
\* the environments the update of a log entry dereferences for its
\* effective Hamiltonian: lenvs(lenv_len) and renvs(renv_len)
ConsumedBy(u) ==
  { <<"l", UpdateLocals(u[2], u[3], N).lenv_len>>,
    <<"r", UpdateLocals(u[2], u[3], N).renv_len>> }

\* the environment the update of a log entry grows
GrownBy(u) ==
  IF GrowOrder(u[2]) = "growing_left_env"
    THEN <<"l", UpdateLocals(u[2], u[3], N).lenv_len + 1>>
    ELSE <<"r", UpdateLocals(u[2], u[3], N).renv_len + 1>>

\* the environments the load step before the update of a log entry loads
LoadedBy(u) ==
  IF u[2] = "r"
    THEN { <<"r", RightLoadRenvLen(N, u[3], left_boundary)>> }
           \cup { <<"l", k>> : k \in RightLoadLenvs({}, u[3], left_boundary) }
    ELSE { <<"l", k>> : k \in LeftLoadLenvs({}, u[3], right_boundary) }
           \cup { <<"r", k>> :
                    k \in LeftLoadRenvs({}, N, u[3], right_boundary) }

PassEntries(sw, d) ==
  { n \in DOMAIN updates : updates[n][1] = sw /\ updates[n][2] = d }

GrownIn(sw, d) == { GrownBy(updates[n]) : n \in PassEntries(sw, d) }

ConsumedIn(sw, d, side) ==
  { e \in UNION { ConsumedBy(updates[n]) : n \in PassEntries(sw, d) } :
      e[1] = side }

LeftLengths == { <<"l", k>> : k \in (left_boundary + 1)..(right_boundary - 1) }

RightLengths ==
  { <<"r", k>> : k \in (N - right_boundary)..(N - left_boundary - 2) }

\* what the passes grow and consume, on the update log
GrownIsConsumed ==
  (mpc \notin {"start"} /\ ~InInit) =>
    \A sw \in 1..sweeps :
      /\ GrownIn(sw, "r") \subseteq LeftLengths
      /\ GrownIn(sw, "l") \subseteq RightLengths
      /\ ConsumedIn(sw, "l", "l") \subseteq GrownIn(sw, "r")
      /\ RightPassOver(sw) => GrownIn(sw, "r") = LeftLengths
      /\ SweepOver(sw) =>
           /\ ConsumedIn(sw, "l", "l") = LeftLengths
           /\ GrownIn(sw, "l") = RightLengths
      /\ (sw > 1 /\ sw <= sweep) =>
           ConsumedIn(sw, "r", "r") \subseteq GrownIn(sw - 1, "l")
      /\ (sw > 1 /\ RightPassOver(sw)) =>
           ConsumedIn(sw, "r", "r") = RightLengths

\* an update that builds its effective Hamiltonian finds both environments
\* resident, each loaded by the load step just before it or grown by the
\* update just before it
DereferencesLoadedOrGrown ==
  mpc = "upd_lanczos" =>
    LET n == Len(updates)
        u == updates[n]
    IN  /\ ConsumedBy(u) = { <<"l", upd.lsite_idx>>,
                             <<"r", (N - 1) - upd.rsite_idx>> }
        /\ upd.lsite_idx \in lenvs
        /\ (N - 1) - upd.rsite_idx \in renvs
        /\ \A e \in ConsumedBy(u) :
             \/ e \in LoadedBy(u)
             \/ n > 1 /\ e = GrownBy(updates[n - 1])

\* the step that grows an environment writes the one GrownBy names, from
\* the one of the same side the update dereferences
GrowsAsLogged ==
  (mpc = "upd_grow" /\ mpc' = "upd_return") =>
    LET g == GrownBy(updates[Len(updates)])
    IN  IF g[1] = "l"
          THEN /\ lenvs' = lenvs \cup {g[2]}
               /\ g[2] - 1 = upd.lsite_idx
               /\ \A k \in DOMAIN lenv_sites :
                    k # g[2] => lenv_sites'[k] = lenv_sites[k]
               /\ UNCHANGED << renvs, renv_sites >>
          ELSE /\ renvs' = renvs \cup {g[2]}
               /\ g[2] - 1 = (N - 1) - upd.rsite_idx
               /\ \A k \in DOMAIN renv_sites :
                    k # g[2] => renv_sites'[k] = renv_sites[k]
               /\ UNCHANGED << lenvs, lenv_sites >>

\* C34: a right-moving pass grows the left environments of lengths
\* left_boundary+1..right_boundary-1, which are the lengths the following
\* left-moving pass consumes; a left-moving pass grows the right environments
\* of lengths N-right_boundary..N-left_boundary-2, which are the lengths the
\* next right-moving pass consumes; and the environments an update
\* dereferences (left length lsite_idx, right length N-1-rsite_idx) were
\* loaded by the load step of that update or grown by the update before it.
C34_EnvsGrownAreConsumed ==
  /\ [](GrownIsConsumed /\ DereferencesLoadedOrGrown)
  /\ [][GrowsAsLogged]_vars

C34_Witness ==
  /\ mpc = "upd_lanczos"
  /\ sweep = 2
  /\ dir = "r"
  /\ target_site = left_boundary + 1
  /\ right_boundary - left_boundary = 3
  /\ <<"l", upd.lsite_idx>> \notin LoadedBy(updates[Len(updates)])
  /\ ConsumedIn(1, "l", "l") = GrownIn(1, "r")

\* ---------------------------------------------------------------- C35
\* the files NeedGenerateRightEnvs probes and UpdateBoundaryEnvs writes
CoveredFiles ==
  ProbedRightEnvs(N, left_boundary, right_boundary)
    \cup UpdateBoundaryEnvsFiles(N, left_boundary, right_boundary)

\* the files the load steps of the first right-moving pass and of the first
\* step of the first left-moving pass read
FirstPassLoads ==
  UNION { LoadedBy(<<1, "r", t>>) :
            t \in left_boundary..(right_boundary - 2) }
    \cup LoadedBy(<<1, "l", right_boundary>>)

\* the environment a load step has put in memory for a file
LoadedTen(f) == IF f[1] = "l" THEN lenv_sites'[f[2]] ELSE renv_sites'[f[2]]

\* after TwoSiteFiniteVMPSInit the probed and the written files exist, and
\* they cover the loads of the first right-moving pass and of the first
\* left-moving step
CoveredFilesPresent ==
  /\ (mpc # "start" /\ ~InInit) =>
       /\ ProbedRightEnvs(N, left_boundary, right_boundary)
            = { <<"r", k>> :
                  k \in ((N - 1) - right_boundary)..((N - 2) - left_boundary) }
       /\ FirstPassLoads \subseteq CoveredFiles
  /\ mpc = "prepare" =>
       /\ CoveredFiles \subseteq env_files
       /\ \A f \in CoveredFiles : file_sites[f] # NoTen

\* a load step of the first sweep reads files that exist
FirstSweepLoadsExist ==
  \A d \in {"r", "l"} :
    (LoadStep(d) /\ sweep = 1) =>
      LET fs == LoadedBy(<<sweep, d, site>>)
      IN  /\ fs \subseteq env_files
          /\ (d = "r" \/ site = right_boundary) => fs \subseteq CoveredFiles
          /\ \A f \in fs :
               LoadedTen(f) = file_sites[f] /\ file_sites[f] # NoTen

\* C35: the right-environment files NeedGenerateRightEnvs probes, of lengths
\* (N-1)-right_boundary..(N-2)-left_boundary, and the three files
\* UpdateBoundaryEnvs writes cover every environment file the first
\* right-moving pass and the first step of the first left-moving pass load,
\* and no load of the first sweep reads a file that was neither found
\* present nor written before.
C35_FirstSweepLoadsCovered ==
  /\ [](CoveredFilesPresent)
  /\ [][FirstSweepLoadsExist]_vars

C35_Witness ==
  /\ mpc = "upd_switch"
  /\ sweep = 1
  /\ dir = "l"
  /\ target_site = right_boundary
  /\ left_boundary = 1
  /\ noises_cfg = << >>
  /\ renv_sites[(N - 1) - right_boundary] # NoTen
  /\ <<"l", left_boundary>> \in env_files

\* ---------------------------------------------------------------- C36
\* the loop counter of a sweep stays a site of the active range: it never
\* passes below zero, where a size_t would wrap
SiteCounterInRange ==
  InSweep =>
    /\ site >= 0
    /\ left_boundary <= site
    /\ site <= right_boundary
    /\ mpc = "l_head" => site >= left_boundary + 1
    /\ mpc = "r_head" => site <= right_boundary - 1

\* the bond updates of a complete run
AllUpdates == sweeps * 2 * (right_boundary - left_boundary - 1)

UpdatesBeforeFinal ==
  /\ (mpc # "start" /\ ~InInit) =>
       /\ right_boundary >= left_boundary + 2
       /\ Len(updates) <= AllUpdates
  /\ (\E k \in DOMAIN orders : orders[k] = "program_final") =>
       Len(updates) = AllUpdates
  /\ mpc \in {"final_dump", "final_bcast", "done"} =>
       Len(updates) = AllUpdates
  /\ exit_status = 0

\* the update log changes only by one entry, and not after program_final
UpdatesOnlyGrow ==
  /\ updates' # updates =>
       /\ Len(updates') = Len(updates) + 1
       /\ mpc \in {"r_head", "l_head"}
  /\ mpc = "done" => UNCHANGED << updates, orders >>

\* C36: with right_boundary >= left_boundary + 2 and a finite number of
\* sweeps, MasterTwoSiteFiniteVMPS terminates when every call returns; the
\* site counter of neither loop passes below zero; and exactly
\* sweeps * 2 * (right_boundary - left_boundary - 1) bond updates are made
\* before program_final is broadcast.
C36_MasterTerminates ==
  /\ [](SiteCounterInRange /\ UpdatesBeforeFinal)
  /\ [][UpdatesOnlyGrow]_vars
  /\ <>(mpc = "done")

C36_Witness ==
  /\ mpc = "done"
  /\ sweeps = 2
  /\ N = 5
  /\ left_boundary = 0
  /\ right_boundary = 4
  /\ Len(updates) = 12
  /\ orders[Len(orders)] = "program_final"
  /\ site = 1

\* ---------------------------------------------------------------- C37
\* the MPS tensors the function has loaded when it reaches a dump loop
LoadedForDump ==
  /\ cpc = "left_dump" => c_mem = 0..(c_lb + 1)
  /\ cpc = "right_dump" => c_mem = (c_rb - 1)..(c_N - 1)

\* the function has not crashed in a dump of a tensor that is not loaded
\* and its closing assertion has not failed; when it has returned no tensor
\* is resident
ReturnsEmpty ==
  /\ cpc \notin {"crashed", "aborted"}
  /\ cpc = "returned" => c_mem = {}

\* a dump loop writes the file of every resident tensor, of no other site,
\* and releases them
DumpsWhatItLoaded ==
  (cpc \in {"left_dump", "right_dump"} /\ cpc' # cpc) =>
    /\ \A i \in 0..(c_N - 1) :
         c_writes'[i] = c_writes[i] + (IF i \in c_mem THEN 1 ELSE 0)
    /\ c_mem' \cap c_mem = {}

\* C37: CheckAndUpdateBoundaryMPSTensors terminates for every chain length
\* N >= 2 and returns with no MPS tensor memory-resident: every tensor it
\* loaded (sites 0..left_boundary+1 and right_boundary-1..N-1) is dumped
\* and released, no tensor that was never loaded is dumped, and the closing
\* assertion mps.empty() holds.
C37_ReturnsWithNoTensorResident ==
  /\ [](LoadedForDump /\ ReturnsEmpty)
  /\ [][DumpsWhatItLoaded]_vars
  /\ (cpc = "enter") ~> (cpc = "returned")

\* ---------------------------------------------------------------- C38
\* the site whose MPO tensor slave s hands to SlaveGrowLeftEnvironment or
\* SlaveGrowRightEnvironment in the case of the order it holds: the entry
\* of eff_ham, 1 or 2, that the case dereferences
SlaveGrowSite(s) ==
  LET ops == GrowOps(sorder[s])
      k == CHOOSE j \in 1..Len(ops) : ops[j][1] = "use" /\ ops[j][2] \in {1, 2}
  IN  IF ops[k][2] = 1 THEN eff_ham[s].p1 ELSE eff_ham[s].p2

\* the site whose MPO tensor the master absorbs in the update it is in
MasterGrowSite ==
  GrowSite(d_upd.dir, UpdateLocals(d_upd.dir, d_upd.target_site, N),
           d_upd.target_site)

\* C38: the site whose MPO tensor a slave absorbs when it grows an
\* environment is the site the master absorbs in the same update: on
\* growing_left_env the left site of the slave's last lanczos order (the
\* master's target_site for dir 'r'), on growing_right_env the right site,
\* left site + 1 (the master's target_site for dir 'l').
C38_SlaveGrowsAtMasterSite ==
  \A s \in Slaves :
    (spc[s] = "dispatch" /\ sorder[s] \in GrowingOrders) =>
      LET lsite == UpdateLocals(d_upd.dir, d_upd.target_site, N).lsite_idx
      IN  /\ sorder[s] = GrowOrder(d_upd.dir)
          /\ eff_ham[s].p1 = lsite
          /\ SlaveGrowSite(s) =
               (IF sorder[s] = "growing_left_env" THEN lsite
                                                  ELSE lsite + 1)
          /\ SlaveGrowSite(s) = MasterGrowSite
          /\ MasterGrowSite = d_upd.target_site

C38_Witness ==
  /\ spc[1] = "dispatch"
  /\ sorder[1] = "growing_right_env"
  /\ d_upd.updates = 2
  /\ d_upd.target_site = 2
  /\ SlaveGrowSite(1) = 2
  /\ eff_ham[1].p1 = 1

====
